---- MODULE Spec2Model ----
(***************************************************************************)
(* Planner / Executor / session loop of the voice agent (src/agent.py).    *)
(*                                                                         *)
(* Python values are represented as follows.                               *)
(*   str (transcripts)   sequences of one-character strings                *)
(*   str (replies)       sequences whose head names the fixed text and     *)
(*                       whose tail holds the values formatted into it     *)
(*   dict                records; a key whose value is None is left out    *)
(*   dict or None        the empty function <<>> stands for None           *)
(*   str or None         the string None stands for None                   *)
(*   float confidence    hundredths, an integer 0..100                     *)
(***************************************************************************)
EXTENDS Integers, Sequences, FiniteSets, TLC

\* Number of process_input calls one behaviour makes on the real agent.
MaxCalls == 5
\* The same, on an agent whose planner or executor is a stand-in.
MaxStubCalls == 2
\* The same, from a session in an arbitrary state.
MaxAnyCalls == 1
\* Pieces of text a transcript handed to parse_confirmation is made of.
MaxPieces == 3
\* Largest max_retries a RetryClient is constructed with.
MaxRetries == 3
\* Calls two callers of one session make together.
MaxRaceCalls == 3
\* Requests a client of the HTTP server makes.
MaxRequests == 3

None == "None"

----------------------------------------------------------------------------
\* Text

Digits == {"0", "1", "2", "3", "4", "5", "6", "7", "8", "9"}

DigitValue(ch) ==
  CASE ch = "0" -> 0 [] ch = "1" -> 1 [] ch = "2" -> 2 [] ch = "3" -> 3
    [] ch = "4" -> 4 [] ch = "5" -> 5 [] ch = "6" -> 6 [] ch = "7" -> 7
    [] ch = "8" -> 8 [] ch = "9" -> 9

\* str.lower() on one character; the Telugu letters have no case.
LowerChar(ch) ==
  CASE ch = "A" -> "a" [] ch = "B" -> "b" [] ch = "C" -> "c" [] ch = "D" -> "d"
    [] ch = "E" -> "e" [] ch = "F" -> "f" [] ch = "G" -> "g" [] ch = "H" -> "h"
    [] ch = "I" -> "i" [] ch = "J" -> "j" [] ch = "K" -> "k" [] ch = "L" -> "l"
    [] ch = "M" -> "m" [] ch = "N" -> "n" [] ch = "O" -> "o" [] ch = "P" -> "p"
    [] ch = "Q" -> "q" [] ch = "R" -> "r" [] ch = "S" -> "s" [] ch = "T" -> "t"
    [] ch = "U" -> "u" [] ch = "V" -> "v" [] ch = "W" -> "w" [] ch = "X" -> "x"
    [] ch = "Y" -> "y" [] ch = "Z" -> "z"
    [] OTHER -> ch

Lower(s) == [i \in 1..Len(s) |-> LowerChar(s[i])]

\* str.strip(): leading and trailing blanks removed.
Strip(s) ==
  LET keep == {i \in 1..Len(s) : s[i] # " "}
  IN IF keep = {} THEN <<>>
     ELSE LET lo == CHOOSE i \in keep : \A j \in keep : i <= j
              hi == CHOOSE i \in keep : \A j \in keep : j <= i
          IN SubSeq(s, lo, hi)

\* Python's `sub in s` on strings.
Contains(sub, s) ==
  \E i \in 0..(Len(s) - Len(sub)) : SubSeq(s, i + 1, i + Len(sub)) = sub

\* str.replace(ch, "")
RECURSIVE Remove(_, _)
Remove(ch, s) ==
  IF s = <<>> THEN <<>>
  ELSE IF Head(s) = ch THEN Remove(ch, Tail(s))
       ELSE <<Head(s)>> \o Remove(ch, Tail(s))

\* int() of a run of decimal digits.
RECURSIVE ToInt(_)
ToInt(ds) ==
  IF ds = <<>> THEN 0
  ELSE 10 * ToInt(SubSeq(ds, 1, Len(ds) - 1)) + DigitValue(ds[Len(ds)])

\* Length of the run of digits of s that starts at position i.
RECURSIVE RunLen(_, _)
RunLen(s, i) ==
  IF i > Len(s) \/ s[i] \notin Digits THEN 0 ELSE 1 + RunLen(s, i + 1)

\* re.search(r"(\d{lo,hi})", s): the leftmost match, greedy; <<>> is no match.
\* hi = 0 stands for an open upper bound.
SearchDigits(s, lo, hi) ==
  LET starts == {i \in 1..Len(s) : RunLen(s, i) >= lo}
  IN IF starts = {} THEN <<>>
     ELSE LET i == CHOOSE k \in starts : \A j \in starts : k <= j
              n == IF hi > 0 /\ RunLen(s, i) > hi THEN hi ELSE RunLen(s, i)
          IN SubSeq(s, i, i + n - 1)

\* The Telugu keywords of the source, one element per code point.
te_avunu == <<"te_a", "te_va", "te_u", "te_na", "te_u">>
te_avu == <<"te_a", "te_va", "te_u">>
te_sare == <<"te_sa", "te_ra", "te_ee">>
te_ledu == <<"te_la", "te_ee", "te_da", "te_u">>
te_kadu == <<"te_ka", "te_aa", "te_da", "te_u">>
te_vivara == <<"te_va", "te_i", "te_va", "te_ra">>
te_vivaralu == <<"te_va", "te_i", "te_va", "te_ra", "te_aa", "te_la", "te_u">>

yes_tokens == {te_avunu, te_avu, te_sare, <<"y", "e", "s">>}
no_tokens == {te_ledu, te_kadu, <<"n", "o">>}
details_keywords ==
  {te_vivara, te_vivaralu, <<"d", "e", "t", "a", "i", "l", "s">>,
   <<"m", "o", "r", "e">>, <<"a", "b", "o", "u", "t">>}

\* parse_confirmation: "yes" True, "no" False, "unclear" None.
parse_confirmation_swapped(transcript) ==
  IF transcript = <<>> THEN "unclear"
  ELSE LET t == Lower(Strip(transcript))
           found_yes == \E tok \in yes_tokens : Contains(tok, t)
           found_no == \E tok \in no_tokens : Contains(tok, t)
       IN IF found_yes /\ ~found_no THEN "no"
          ELSE IF found_no /\ ~found_yes THEN "yes"
          ELSE "unclear"

\* an affirmative token settling the answer alone
parse_confirmation_YesWins(transcript) ==
  IF transcript = <<>> THEN "unclear"
  ELSE LET t == Lower(Strip(transcript))
           found_yes == \E tok \in yes_tokens : Contains(tok, t)
           found_no == \E tok \in no_tokens : Contains(tok, t)
       IN IF found_yes THEN "yes"
          ELSE IF found_no /\ ~found_yes THEN "no"
          ELSE "unclear"

parse_confirmation(transcript) ==
  IF transcript = <<>> THEN "unclear"
  ELSE LET t == Lower(Strip(transcript))
           found_yes == \E tok \in yes_tokens : Contains(tok, t)
           found_no == \E tok \in no_tokens : Contains(tok, t)
       IN IF found_yes /\ ~found_no THEN "yes"
          ELSE IF found_no /\ ~found_yes THEN "no"
          ELSE "unclear"

\* The utterances the callers speak.
U_empty == <<>>
U_30 == <<"3", "0">>
U_Yes_1500 == <<"Y", "e", "s", " ", "1", ",", "5", "0", "0">>
U_yes == <<"y", "e", "s">>
U_no == <<" ", "n", "o", " ">>
U_hello == <<"h", "e", "l", "l", "o">>
U_more_yes == <<"M", "o", "r", "e", " ", "y", "e", "s">>
U_about_pm == <<"a", "b", "o", "u", "t", " ", "p", "m">>
U_avunu == te_avunu
U_kadu == te_kadu
U_yes_no == <<"y", "e", "s", " ", "n", "o">>

Utterances == {U_30, U_Yes_1500, U_no, U_hello, U_more_yes}

----------------------------------------------------------------------------
\* Collaborators: what they hand back is chosen by the environment.

Offer1 == [id |-> "pm", name |-> "kisan"]
Offer2 == [id |-> "ap", name |-> "rythu"]

\* The characters of an offer's identifier or name.
TextOf(w) ==
  CASE w = "pm" -> <<"p", "m">>
    [] w = "ap" -> <<"a", "p">>
    [] w = "kisan" -> <<"K", "i", "s", "a", "n">>
    [] w = "rythu" -> <<"R", "y", "t", "h", "u">>

\* check_eligibility(profile) returns one of these lists.
EligibilityResults == {<<>>, <<Offer1>>, <<Offer1, Offer2>>}
\* search_schemes(query) returns one of these lists.
SearchResults == {<<>>, <<Offer2>>}
\* submit_application(...) returns one of these identifiers.
ApplicationIds == {"APP-1", "APP-2"}

\* One choice of the environment for one executed step: whether the
\* collaborator raises, and what each collaborator would return.
Environments ==
  [fails : BOOLEAN, eligible : EligibilityResults, hits : SearchResults,
   doc_found : BOOLEAN, application_id : ApplicationIds]

DefaultEnv ==
  [fails |-> FALSE, eligible |-> <<>>, hits |-> <<>>, doc_found |-> TRUE,
   application_id |-> "APP-1"]

\* get_scheme_by_id(id) when the document exists.
Document(offer) ==
  [id |-> offer.id, name |-> offer.name, description |-> "description"]

----------------------------------------------------------------------------
\* Session store (src.memory.store): a session is
\*   [profile, waiting_for, last_eligibility, history].

RequiredFields == <<"age", "income">>

NewSession ==
  [profile |-> <<>>, waiting_for |-> None, last_eligibility |-> <<>>,
   history |-> <<>>]

HasSession(st, session_id) == session_id \in DOMAIN st

set_waiting(st, session_id, field) ==
  [st EXCEPT ![session_id].waiting_for = field]

add_history(st, session_id, role, text) ==
  [st EXCEPT ![session_id].history = Append(@, <<role, text>>)]

\* session["profile"][field] = value
SetProfile(st, session_id, field, value) ==
  [st EXCEPT ![session_id].profile = (field :> value) @@ @]

\* session["last_eligibility"] = eligible
SetLastEligibility(st, session_id, eligible) ==
  [st EXCEPT ![session_id].last_eligibility = eligible]

\* dict.get(key) is not None
Has(d, key) == key \in DOMAIN d

----------------------------------------------------------------------------
\* Planner

\* confidence < 0.6
LowConfidence_Half(confidence) == confidence < 50

LowConfidence(confidence) == confidence < 60

HasDetailsKeyword(transcript) ==
  \E k \in details_keywords : Contains(k, Lower(transcript))

Missing_IncomeFirst(profile) ==
  SelectSeq(<<"income", "age">>, LAMBDA f : ~Has(profile, f))

Missing(profile) == SelectSeq(RequiredFields, LAMBDA f : ~Has(profile, f))

\* yes/no parsing ahead of the details keywords
Planner_plan_ConfirmFirst(session, transcript, confidence) ==
  IF LowConfidence(confidence) THEN <<[step |-> "clarify_asr"]>>
  ELSE LET waiting == session.waiting_for
       IN IF waiting # None
          THEN IF waiting = "confirmation"
               THEN IF parse_confirmation(transcript) # "unclear"
                    THEN <<[step |-> "confirm"]>>
                    ELSE IF HasDetailsKeyword(transcript)
                    THEN <<[step |-> "describe_scheme", query |-> transcript]>>
                    ELSE <<[step |-> "confirm"]>>
               ELSE <<[step |-> "fill_field", field |-> waiting]>>
          ELSE LET missing == Missing(session.profile)
               IN IF missing # <<>>
                  THEN <<[step |-> "ask_field", field |-> missing[1]]>>
                  ELSE <<[step |-> "check_eligibility"]>>

Planner_plan(session, transcript, confidence) ==
  IF LowConfidence(confidence) THEN <<[step |-> "clarify_asr"]>>
  ELSE LET waiting == session.waiting_for
       IN IF waiting # None
          THEN IF waiting = "confirmation"
               THEN IF HasDetailsKeyword(transcript)
                    THEN <<[step |-> "describe_scheme", query |-> transcript]>>
                    ELSE <<[step |-> "confirm"]>>
               ELSE <<[step |-> "fill_field", field |-> waiting]>>
          ELSE LET missing == Missing(session.profile)
               IN IF missing # <<>>
                  THEN <<[step |-> "ask_field", field |-> missing[1]]>>
                  ELSE <<[step |-> "check_eligibility"]>>

----------------------------------------------------------------------------
\* Executor
\*
\* Every operator below returns
\*   [st     the session store after the step,
\*    out    the outcome dict (<<>> when the step raised),
\*    log    the collaborator invocations made, in order,
\*    raised whether an exception left the step].

\* One collaborator invocation: its argument, and what it returned unless it
\* raised.
Invocation(fn, arg, raised, ret) ==
  [fn |-> fn, arg |-> arg, raised |-> raised, ret |-> ret]

Outcome(st, out, log) == [st |-> st, out |-> out, log |-> log, raised |-> FALSE]

Raised(st, log) == [st |-> st, out |-> <<>>, log |-> log, raised |-> TRUE]

\* _parse_and_set_field: [st, filled]
\* an income stored as the whole profile
Executor_parse_and_set_field_Reset(st, session_id, field, transcript) ==
  IF field = "age"
  THEN LET m == SearchDigits(transcript, 1, 3)
       IN IF m # <<>>
          THEN [st |-> SetProfile(st, session_id, "age", ToInt(m)),
                filled |-> TRUE]
          ELSE [st |-> st, filled |-> FALSE]
  ELSE IF field = "income"
  THEN LET m == SearchDigits(Remove(",", transcript), 3, 0)
       IN IF m # <<>>
          THEN [st |-> [st EXCEPT ![session_id].profile = [income |-> ToInt(m)]],
                filled |-> TRUE]
          ELSE [st |-> st, filled |-> FALSE]
  ELSE [st |-> st, filled |-> FALSE]

Executor_parse_and_set_field(st, session_id, field, transcript) ==
  IF field = "age"
  THEN LET m == SearchDigits(transcript, 1, 3)
       IN IF m # <<>>
          THEN [st |-> SetProfile(st, session_id, "age", ToInt(m)),
                filled |-> TRUE]
          ELSE [st |-> st, filled |-> FALSE]
  ELSE IF field = "income"
  THEN LET m == SearchDigits(Remove(",", transcript), 3, 0)
       IN IF m # <<>>
          THEN [st |-> SetProfile(st, session_id, "income", ToInt(m)),
                filled |-> TRUE]
          ELSE [st |-> st, filled |-> FALSE]
  ELSE [st |-> st, filled |-> FALSE]

ExecuteClarifyAsr_KeepWaiting(st, session_id) ==
  LET reply == <<"clarify_asr">>
  IN Outcome(add_history(st, session_id, "assistant", reply),
             [status |-> "clarify", reply |-> reply], <<>>)

ExecuteClarifyAsr(st, session_id) ==
  LET reply == <<"clarify_asr">>
      s1 == set_waiting(st, session_id, None)
      s2 == add_history(s1, session_id, "assistant", reply)
  IN Outcome(s2, [status |-> "clarify", reply |-> reply], <<>>)

\* a field asked for without the session waiting for it
ExecuteAskField_NotWaiting(st, session_id, field) ==
  LET reply == IF field = "age" THEN <<"ask", "age">>
               ELSE IF field = "income" THEN <<"ask", "income">>
               ELSE <<"ask_unknown">>
      s2 == add_history(st, session_id, "assistant", reply)
  IN Outcome(s2, [status |-> "ask", reply |-> reply], <<>>)

ExecuteAskField(st, session_id, field) ==
  LET reply == IF field = "age" THEN <<"ask", "age">>
               ELSE IF field = "income" THEN <<"ask", "income">>
               ELSE <<"ask_unknown">>
      s1 == IF field = "age" THEN set_waiting(st, session_id, "age")
            ELSE IF field = "income" THEN set_waiting(st, session_id, "income")
            ELSE st
      s2 == add_history(s1, session_id, "assistant", reply)
  IN Outcome(s2, [status |-> "ask", reply |-> reply], <<>>)

\* a field filled while the session goes on waiting for it
ExecuteFillField_KeepWaiting(st, session_id, field, transcript) ==
  LET r == Executor_parse_and_set_field(st, session_id, field, transcript)
  IN IF ~r.filled
     THEN LET reply == <<"ask_again", field>>
              s1 == set_waiting(r.st, session_id, field)
              s2 == add_history(s1, session_id, "assistant", reply)
          IN Outcome(s2, [status |-> "ask", reply |-> reply], <<>>)
     ELSE Outcome(r.st, [status |-> "filled", field |-> field], <<>>)

ExecuteFillField_ClearOnFailure(st, session_id, field, transcript) ==
  LET r == Executor_parse_and_set_field(st, session_id, field, transcript)
  IN IF ~r.filled
     THEN LET reply == <<"ask_again", field>>
              s1 == set_waiting(r.st, session_id, None)
              s2 == add_history(s1, session_id, "assistant", reply)
          IN Outcome(s2, [status |-> "ask", reply |-> reply], <<>>)
     ELSE Outcome(set_waiting(r.st, session_id, None),
                  [status |-> "filled", field |-> field], <<>>)

ExecuteFillField_ReplyOnSuccess(st, session_id, field, transcript) ==
  LET r == Executor_parse_and_set_field(st, session_id, field, transcript)
  IN IF ~r.filled
     THEN LET reply == <<"ask_again", field>>
              s1 == set_waiting(r.st, session_id, field)
              s2 == add_history(s1, session_id, "assistant", reply)
          IN Outcome(s2, [status |-> "ask", reply |-> reply], <<>>)
     ELSE LET reply == <<"filled", field>>
              s1 == set_waiting(r.st, session_id, None)
              s2 == add_history(s1, session_id, "assistant", reply)
          IN Outcome(s2, [status |-> "filled", field |-> field,
                          reply |-> reply], <<>>)

ExecuteFillField(st, session_id, field, transcript) ==
  LET r == Executor_parse_and_set_field(st, session_id, field, transcript)
  IN IF ~r.filled
     THEN LET reply == <<"ask_again", field>>
              s1 == set_waiting(r.st, session_id, field)
              s2 == add_history(s1, session_id, "assistant", reply)
          IN Outcome(s2, [status |-> "ask", reply |-> reply], <<>>)
     ELSE Outcome(set_waiting(r.st, session_id, None),
                  [status |-> "filled", field |-> field], <<>>)

\* ", ".join(names) formatted into the reply
EligibleReply(eligible) ==
  <<"eligible">> \o [i \in 1..Len(eligible) |-> eligible[i].name]

\* the confirmation awaited even when no scheme is offered
ExecuteCheckEligibility_AlwaysConfirm(st, session_id, env) ==
  LET profile == st[session_id].profile
      log == <<Invocation("check_eligibility", profile, env.fails,
                          IF env.fails THEN <<>> ELSE env.eligible)>>
  IN IF env.fails THEN Raised(st, log)
     ELSE LET eligible == env.eligible
              s1 == SetLastEligibility(st, session_id, eligible)
              reply == IF eligible # <<>> THEN EligibleReply(eligible)
                       ELSE <<"not_eligible">>
              s2 == set_waiting(s1, session_id, "confirmation")
              s3 == add_history(s2, session_id, "assistant", reply)
          IN Outcome(s3, [status |-> "eligible_check", reply |-> reply,
                          eligible |-> eligible], log)

ExecuteCheckEligibility_KeepOffers(st, session_id, env) ==
  LET profile == st[session_id].profile
      log == <<Invocation("check_eligibility", profile, env.fails,
                          IF env.fails THEN <<>> ELSE env.eligible)>>
  IN IF env.fails THEN Raised(st, log)
     ELSE LET eligible == env.eligible
              reply == IF eligible # <<>> THEN EligibleReply(eligible)
                       ELSE <<"not_eligible">>
              s2 == set_waiting(st, session_id, "confirmation")
              s3 == add_history(s2, session_id, "assistant", reply)
          IN Outcome(s3, [status |-> "eligible_check", reply |-> reply,
                          eligible |-> eligible], log)

ExecuteCheckEligibility(st, session_id, env) ==
  LET profile == st[session_id].profile
      log == <<Invocation("check_eligibility", profile, env.fails,
                          IF env.fails THEN <<>> ELSE env.eligible)>>
  IN IF env.fails THEN Raised(st, log)
     ELSE LET eligible == env.eligible
              s1 == SetLastEligibility(st, session_id, eligible)
              reply == IF eligible # <<>> THEN EligibleReply(eligible)
                       ELSE <<"not_eligible">>
              s2 == IF eligible # <<>>
                    THEN set_waiting(s1, session_id, "confirmation")
                    ELSE set_waiting(s1, session_id, None)
              s3 == add_history(s2, session_id, "assistant", reply)
          IN Outcome(s3, [status |-> "eligible_check", reply |-> reply,
                          eligible |-> eligible], log)

\* s.get("name", "").lower() in query.lower() or the same for s.get("id", "")
OfferMatches(offer, query) ==
  \/ Contains(Lower(TextOf(offer.name)), Lower(query))
  \/ Contains(Lower(TextOf(offer.id)), Lower(query))

\* the hits of the lookup kept as the session's offers
ExecuteDescribeScheme_StoreHits(st, session_id, step, transcript, env) ==
  LET query == IF Has(step, "query") /\ step.query # <<>> THEN step.query
               ELSE transcript
      last == st[session_id].last_eligibility
      local == SelectSeq(last, LAMBDA s : OfferMatches(s, query))
      searched == local = <<>>
      log1 == IF searched
              THEN <<Invocation("search_schemes", query, env.fails,
                                IF env.fails THEN <<>> ELSE env.hits)>>
              ELSE <<>>
  IN IF searched /\ env.fails THEN Raised(st, log1)
     ELSE LET hits == IF searched THEN env.hits ELSE local
          IN IF hits = <<>>
             THEN LET reply == <<"no_details">>
                      s1 == set_waiting(st, session_id, "confirmation")
                      s2 == add_history(s1, session_id, "assistant", reply)
                  IN Outcome(s2, [status |-> "no_details", reply |-> reply],
                             log1)
             ELSE LET first == hits[1]
                      log2 == Append(log1,
                                Invocation("get_scheme_by_id", first.id, FALSE,
                                           IF env.doc_found THEN Document(first)
                                           ELSE <<>>))
                  IN \* a missing document is None, and None.get(...) raises
                     IF ~env.doc_found THEN Raised(st, log2)
                     ELSE LET doc == Document(first)
                              reply == <<"describe", doc.name, doc.description>>
                              s0 == SetLastEligibility(st, session_id, hits)
                              s1 == set_waiting(s0, session_id, "confirmation")
                              s2 == add_history(s1, session_id, "assistant",
                                                reply)
                          IN Outcome(s2, [status |-> "describe",
                                          reply |-> reply], log2)

ExecuteDescribeScheme(st, session_id, step, transcript, env) ==
  LET query == IF Has(step, "query") /\ step.query # <<>> THEN step.query
               ELSE transcript
      last == st[session_id].last_eligibility
      local == SelectSeq(last, LAMBDA s : OfferMatches(s, query))
      searched == local = <<>>
      log1 == IF searched
              THEN <<Invocation("search_schemes", query, env.fails,
                                IF env.fails THEN <<>> ELSE env.hits)>>
              ELSE <<>>
  IN IF searched /\ env.fails THEN Raised(st, log1)
     ELSE LET hits == IF searched THEN env.hits ELSE local
          IN IF hits = <<>>
             THEN LET reply == <<"no_details">>
                      s1 == set_waiting(st, session_id, "confirmation")
                      s2 == add_history(s1, session_id, "assistant", reply)
                  IN Outcome(s2, [status |-> "no_details", reply |-> reply],
                             log1)
             ELSE LET first == hits[1]
                      log2 == Append(log1,
                                Invocation("get_scheme_by_id", first.id, FALSE,
                                           IF env.doc_found THEN Document(first)
                                           ELSE <<>>))
                  IN \* a missing document is None, and None.get(...) raises
                     IF ~env.doc_found THEN Raised(st, log2)
                     ELSE LET doc == Document(first)
                              reply == <<"describe", doc.name, doc.description>>
                              s1 == set_waiting(st, session_id, "confirmation")
                              s2 == add_history(s1, session_id, "assistant",
                                                reply)
                          IN Outcome(s2, [status |-> "describe",
                                          reply |-> reply], log2)

\* an application submitted while the session goes on waiting for the answer
ExecuteConfirm_KeepWaiting(st, session_id, transcript, env) ==
  LET parsed == parse_confirmation(transcript)
  IN IF parsed = "yes"
     THEN LET profile == st[session_id].profile
              log == <<Invocation("submit_application", profile, env.fails,
                                IF env.fails THEN None
                                ELSE env.application_id)>>
          IN IF env.fails THEN Raised(st, log)
             ELSE LET app_id == env.application_id
                      reply == <<"submitted", app_id>>
                      s1 == add_history(st, session_id, "assistant", reply)
                  IN Outcome(s1, [status |-> "submitted", reply |-> reply,
                                  application_id |-> app_id], log)
     ELSE IF parsed = "no"
     THEN LET reply == <<"declined">>
              s1 == add_history(st, session_id, "assistant", reply)
              s2 == set_waiting(s1, session_id, None)
          IN Outcome(s2, [status |-> "declined", reply |-> reply], <<>>)
     ELSE LET reply == <<"confirm_ask">>
              s1 == set_waiting(st, session_id, "confirmation")
              s2 == add_history(s1, session_id, "assistant", reply)
          IN Outcome(s2, [status |-> "confirm_ask", reply |-> reply], <<>>)

ExecuteConfirm_SubmitUnlessNo(st, session_id, transcript, env) ==
  LET parsed == parse_confirmation(transcript)
  IN IF parsed # "no"
     THEN LET profile == st[session_id].profile
              log == <<Invocation("submit_application", profile, FALSE,
                                  env.application_id)>>
              reply == <<"submitted", env.application_id>>
              s1 == add_history(st, session_id, "assistant", reply)
              s2 == set_waiting(s1, session_id, None)
          IN Outcome(s2, [status |-> "submitted", reply |-> reply,
                          application_id |-> env.application_id], log)
     ELSE LET reply == <<"declined">>
              s1 == add_history(st, session_id, "assistant", reply)
              s2 == set_waiting(s1, session_id, None)
          IN Outcome(s2, [status |-> "declined", reply |-> reply], <<>>)

ExecuteConfirm(st, session_id, transcript, env) ==
  LET parsed == parse_confirmation(transcript)
  IN IF parsed = "yes"
     THEN LET profile == st[session_id].profile
              log == <<Invocation("submit_application", profile, env.fails,
                                IF env.fails THEN None
                                ELSE env.application_id)>>
          IN IF env.fails THEN Raised(st, log)
             ELSE LET app_id == env.application_id
                      reply == <<"submitted", app_id>>
                      s1 == add_history(st, session_id, "assistant", reply)
                      s2 == set_waiting(s1, session_id, None)
                  IN Outcome(s2, [status |-> "submitted", reply |-> reply,
                                  application_id |-> app_id], log)
     ELSE IF parsed = "no"
     THEN LET reply == <<"declined">>
              s1 == add_history(st, session_id, "assistant", reply)
              s2 == set_waiting(s1, session_id, None)
          IN Outcome(s2, [status |-> "declined", reply |-> reply], <<>>)
     ELSE LET reply == <<"confirm_ask">>
              s1 == set_waiting(st, session_id, "confirmation")
              s2 == add_history(s1, session_id, "assistant", reply)
          IN Outcome(s2, [status |-> "confirm_ask", reply |-> reply], <<>>)

ExecuteSubmitApplication(st, session_id, env) ==
  LET profile == st[session_id].profile
      log == <<Invocation("submit_application", profile, env.fails,
                                IF env.fails THEN None
                                ELSE env.application_id)>>
  IN IF env.fails THEN Raised(st, log)
     ELSE LET reply == <<"submitted_direct", env.application_id>>
              s1 == add_history(st, session_id, "assistant", reply)
              s2 == set_waiting(s1, session_id, None)
          IN Outcome(s2, [status |-> "submitted", reply |-> reply], log)

\* get_session creating the session it does not find
Executor_execute_CreateSession(step, session_id, transcript, st, env) ==
  LET name == step.step
      made == IF HasSession(st, session_id) THEN st
              ELSE (session_id :> NewSession) @@ st
  IN IF ~HasSession(st, session_id)
     THEN Outcome(made, [status |-> "error", error |-> "no_session"], <<>>)
     ELSE CASE name = "clarify_asr" -> ExecuteClarifyAsr(st, session_id)
            [] name = "ask_field" ->
                 ExecuteAskField(st, session_id,
                                 IF Has(step, "field") THEN step.field ELSE None)
            [] name = "fill_field" ->
                 ExecuteFillField(st, session_id,
                                  IF Has(step, "field") THEN step.field ELSE None,
                                  transcript)
            [] name = "check_eligibility" ->
                 ExecuteCheckEligibility(st, session_id, env)
            [] name = "describe_scheme" ->
                 ExecuteDescribeScheme(st, session_id, step, transcript, env)
            [] name = "confirm" ->
                 ExecuteConfirm(st, session_id, transcript, env)
            [] name = "submit_application" ->
                 ExecuteSubmitApplication(st, session_id, env)
            [] OTHER -> Outcome(st, [status |-> "unknown_step"], <<>>)

Executor_execute(step, session_id, transcript, st, env) ==
  LET name == step.step
  IN IF ~HasSession(st, session_id)
     THEN Outcome(st, [status |-> "error", error |-> "no_session"], <<>>)
     ELSE CASE name = "clarify_asr" -> ExecuteClarifyAsr(st, session_id)
            [] name = "ask_field" ->
                 ExecuteAskField(st, session_id,
                                 IF Has(step, "field") THEN step.field ELSE None)
            [] name = "fill_field" ->
                 ExecuteFillField(st, session_id,
                                  IF Has(step, "field") THEN step.field ELSE None,
                                  transcript)
            [] name = "check_eligibility" ->
                 ExecuteCheckEligibility(st, session_id, env)
            [] name = "describe_scheme" ->
                 ExecuteDescribeScheme(st, session_id, step, transcript, env)
            [] name = "confirm" ->
                 ExecuteConfirm(st, session_id, transcript, env)
            [] name = "submit_application" ->
                 ExecuteSubmitApplication(st, session_id, env)
            [] OTHER -> Outcome(st, [status |-> "unknown_step"], <<>>)

\* The environments that differ in what the step can observe.
EnvironmentsOf(step, session, transcript) ==
  CASE step.step = "check_eligibility" ->
         {[DefaultEnv EXCEPT !.eligible = e] : e \in EligibilityResults}
           \cup {[DefaultEnv EXCEPT !.fails = TRUE]}
    [] step.step = "describe_scheme" ->
         {[DefaultEnv EXCEPT !.hits = h, !.doc_found = d] :
            h \in SearchResults, d \in BOOLEAN}
           \cup {[DefaultEnv EXCEPT !.fails = TRUE]}
    [] step.step \in {"confirm", "submit_application"} ->
         {[DefaultEnv EXCEPT !.application_id = a] : a \in ApplicationIds}
           \cup {[DefaultEnv EXCEPT !.fails = TRUE]}
    [] OTHER -> {DefaultEnv}

----------------------------------------------------------------------------
\* Evaluator

Evaluator_evaluate(exec_out) == exec_out

----------------------------------------------------------------------------
\* Agent

\* for _ in range(5)
MaxIterations_Six == 5 + 1

MaxIterations == 5

\* Stand-ins for self.planner and self.executor, besides the real ones.
StubPlan(planner) ==
  CASE planner = "OneStep" -> <<[step |-> "noop"]>>
    [] planner = "TwoSteps" -> <<[step |-> "noop"], [step |-> "noop"]>>
    [] planner = "Empty" -> <<>>

StubOutcome(executor, st) ==
  CASE executor = "AlwaysFilled" -> Outcome(st, [status |-> "filled"], <<>>)

\* self.planner.plan(session, transcript, confidence)
AgentPlan(planner, session, transcript, confidence) ==
  IF planner = "Planner" THEN Planner_plan(session, transcript, confidence)
  ELSE StubPlan(planner)

\* self.executor.execute(step, session_id, transcript)
AgentExecute(executor, step, session_id, transcript, st, env) ==
  IF executor = "Executor"
  THEN Executor_execute(step, session_id, transcript, st, env)
  ELSE StubOutcome(executor, st)

Pairings ==
  {<<"Planner", "Executor">>, <<"OneStep", "AlwaysFilled">>,
   <<"TwoSteps", "AlwaysFilled">>, <<"OneStep", "Executor">>,
   <<"Empty", "Executor">>}

\* d.get("reply") is truthy
HasReply(d) == Has(d, "reply") /\ d.reply # <<>>

Restrict(d, keys) == [k \in (DOMAIN d) \cap keys |-> d[k]]

\* the reply left out of the dict returned
EarlyReturn_StatusOnly(eval_out) == Restrict(eval_out, {"status"})

\* The dict built at the early return.
EarlyReturn(eval_out) ==
  Restrict(eval_out,
           {"status", "reply", "eligible"}
             \cup (IF Has(eval_out, "application_id") THEN {"application_id"}
                   ELSE {}))

\* The dict built after the loop.
FallbackReturn(response) ==
  IF response = <<>> THEN [status |-> "no_action", reply |-> <<>>]
  ELSE Restrict(response, {"status", "reply", "eligible", "application_id"})

Calls == {1, 2}
SessionIds == {"s1", "unknown"}
\* The arguments of the calls. A call on a session that does not exist
\* returns before it reads its transcript or confidence, and a call of low
\* confidence never reads its transcript: one of each is enough.
Inputs ==
  {<<"s1", t, 60>> : t \in Utterances}
    \cup {<<"s1", U_yes, 59>>}
    \cup {<<"unknown", U_hello, 60>>}

\* Every utterance at every confidence, for the planner's decision table.
AllUtterances ==
  Utterances \cup {U_empty, U_yes, U_about_pm, U_avunu, U_kadu, U_yes_no}
AllConfidences == {0, 59, 60, 100}
AllInputs == {<<"s1", t, conf>> : t \in AllUtterances, conf \in AllConfidences}

\* What two callers of one session say: an age, or an income that is also
\* a yes.
RaceInputs == {<<"s1", U_30, 60>>, <<"s1", U_Yes_1500, 60>>}

\* What the callers choose from, by repertoire.
InputsOf(repertoire) ==
  IF repertoire = "all" THEN AllInputs
  ELSE IF repertoire = "race" THEN RaceInputs
  ELSE Inputs

VARIABLES
  store,       \* the session store: session id -> session
  planner,     \* Agent.planner
  executor,    \* Agent.executor
  threads,     \* the callers that issue process_input calls
  budget,      \* calls the callers will still make
  inputs,      \* the repertoire the callers choose their arguments from
  pc,          \* per call: "idle", "plan", "exec", "fallback", "done", "raised",
               \*           "executed" after a direct Executor.execute
  session_id,  \* per call: argument
  transcript,  \* per call: argument
  confidence,  \* per call: argument
  iter,        \* per call: iterations of the for loop begun
  plan,        \* per call: the list the planner returned
  idx,         \* per call: position of the inner loop in plan
  response,    \* per call: the local `response`
  result,      \* per call: what the last finished call returned
  pre,         \* per call: the store when the call began
  before,      \* per call: the store before the step executed last
  executed,    \* per call: the steps executed, in order
  log,         \* per call: the collaborator invocations, in order
  client,      \* the RetryClient and its run_flow call
  server,      \* the HTTP server: its configuration and its last responses
  overlapped   \* whether a call began while another call was running

vars ==
  <<store, planner, executor, threads, budget, inputs, pc, session_id, transcript,
    confidence, iter, plan, idx, response, result, pre, before, executed, log,
    client, server, overlapped>>

\* No RetryClient was constructed.
NoClient == [pc |-> "absent"]

\* The server module was not loaded.
NoServer == [pc |-> "absent"]

InitCalls ==
  /\ overlapped = FALSE
  /\ pc = [c \in Calls |-> "idle"]
  /\ session_id = [c \in Calls |-> "s1"]
  /\ transcript = [c \in Calls |-> <<>>]
  /\ confidence = [c \in Calls |-> 0]
  /\ iter = [c \in Calls |-> 0]
  /\ plan = [c \in Calls |-> <<>>]
  /\ idx = [c \in Calls |-> 0]
  /\ response = [c \in Calls |-> <<>>]
  /\ result = [c \in Calls |-> <<>>]
  /\ pre = [c \in Calls |-> store]
  /\ before = [c \in Calls |-> store]
  /\ executed = [c \in Calls |-> <<>>]
  /\ log = [c \in Calls |-> <<>>]

InitLocals == client = NoClient /\ server = NoServer /\ InitCalls

\* One caller; the session "s1" was created and nothing was said yet.
Init ==
  /\ store = [s \in {"s1"} |-> NewSession]
  /\ \E p \in Pairings : planner = p[1] /\ executor = p[2]
  /\ threads = {1}
  /\ budget = IF planner = "Planner" /\ executor = "Executor" THEN MaxCalls
              ELSE MaxStubCalls
  /\ inputs = "some"
  /\ InitLocals

\* The session states the planner's decision table ranges over.
AnyProfiles ==
  {<<>>, [age |-> 30], [income |-> 1500], [age |-> 30, income |-> 1500]}

AnySessions ==
  [profile : AnyProfiles,
   waiting_for : {None, "age", "income", "confirmation"},
   last_eligibility : EligibilityResults, history : {<<>>}]

\* One caller; the session "s1" is in any state, and any utterance comes at
\* any confidence.
InitAny ==
  /\ \E s \in AnySessions : store = [i \in {"s1"} |-> s]
  /\ \E p \in {<<"Planner", "Executor">>, <<"OneStep", "AlwaysFilled">>} :
       planner = p[1] /\ executor = p[2]
  /\ threads = {1}
  /\ budget = MaxAnyCalls
  /\ inputs = "all"
  /\ InitLocals

\* Some call of these callers is inside process_input.
Running(callers) == \E d \in callers : pc[d] \in {"plan", "exec", "fallback"}

\* process_input up to the for loop
Begin(c) ==
  /\ c \in threads
  /\ pc[c] \in {"idle", "done", "raised", "executed"}
  /\ budget > 0
  /\ \E in \in InputsOf(inputs) :
       LET sid == in[1]
           t == in[2]
           conf == in[3]
       IN
       /\ session_id' = [session_id EXCEPT ![c] = sid]
       /\ transcript' = [transcript EXCEPT ![c] = t]
       /\ confidence' = [confidence EXCEPT ![c] = conf]
       /\ IF ~HasSession(store, sid)
          THEN /\ result' = [result EXCEPT ![c] =
                               [status |-> "error", error |-> "session_not_found"]]
               /\ pc' = [pc EXCEPT ![c] = "done"]
               /\ store' = store
          ELSE /\ store' = add_history(store, sid, "user", t)
               /\ pc' = [pc EXCEPT ![c] = "plan"]
               /\ result' = result
  /\ budget' = budget - 1
  /\ iter' = [iter EXCEPT ![c] = 0]
  /\ plan' = [plan EXCEPT ![c] = <<>>]
  /\ idx' = [idx EXCEPT ![c] = 0]
  /\ response' = [response EXCEPT ![c] = <<>>]
  /\ pre' = [pre EXCEPT ![c] = store]
  /\ before' = [before EXCEPT ![c] = store]
  /\ executed' = [executed EXCEPT ![c] = <<>>]
  /\ log' = [log EXCEPT ![c] = <<>>]
  /\ overlapped' = IF Running(threads \ {c}) THEN TRUE ELSE overlapped
  /\ UNCHANGED <<server, client, planner, executor, threads, inputs>>

\* Where the for loop goes after an iteration that did not return.
NextIteration(c) == IF iter[c] >= MaxIterations THEN "fallback" ELSE "plan"

\* One iteration's call of the planner.
Plan(c) ==
  /\ pc[c] = "plan"
  /\ LET p == AgentPlan(planner, store[session_id[c]], transcript[c],
                        confidence[c])
     IN /\ plan' = [plan EXCEPT ![c] = p]
        /\ idx' = [idx EXCEPT ![c] = 1]
        /\ pc' = [pc EXCEPT ![c] = IF p = <<>> THEN "fallback" ELSE "exec"]
  /\ iter' = [iter EXCEPT ![c] = @ + 1]
  /\ UNCHANGED <<overlapped, server, client, store, planner, executor, threads, budget, inputs, session_id,
                 transcript, confidence, response, result, pre, before,
                 executed, log>>

\* One step of the inner loop: execute, evaluate, return or go on.
Exec(c) ==
  /\ pc[c] = "exec"
  /\ LET step == plan[c][idx[c]]
         sid == session_id[c]
     IN \E env \in EnvironmentsOf(step, store[sid], transcript[c]) :
          LET r == AgentExecute(executor, step, sid, transcript[c], store, env)
              eval_out == Evaluator_evaluate(r.out)
          IN /\ store' = r.st
             /\ before' = [before EXCEPT ![c] = store]
             /\ executed' = [executed EXCEPT ![c] = Append(@, step)]
             /\ log' = [log EXCEPT ![c] = @ \o r.log]
             /\ IF r.raised
                THEN \* the exception leaves process_input: nothing returns
                     /\ pc' = [pc EXCEPT ![c] = "raised"]
                     /\ result' = [result EXCEPT ![c] = <<>>]
                     /\ UNCHANGED <<response, idx>>
                ELSE /\ response' = [response EXCEPT ![c] = eval_out]
                     /\ IF HasReply(r.out)
                        THEN /\ result' = [result EXCEPT ![c] =
                                             EarlyReturn(eval_out)]
                             /\ pc' = [pc EXCEPT ![c] = "done"]
                             /\ idx' = idx
                        ELSE IF Has(eval_out, "status")
                                /\ eval_out.status = "filled"
                        THEN /\ pc' = [pc EXCEPT ![c] = NextIteration(c)]
                             /\ UNCHANGED <<result, idx>>
                        ELSE IF idx[c] < Len(plan[c])
                        THEN /\ idx' = [idx EXCEPT ![c] = @ + 1]
                             /\ UNCHANGED <<result, pc>>
                        ELSE /\ pc' = [pc EXCEPT ![c] = NextIteration(c)]
                             /\ UNCHANGED <<result, idx>>
  /\ UNCHANGED <<overlapped, server, client, planner, executor, threads, budget, inputs, session_id, transcript,
                 confidence, iter, plan, pre>>

\* The return after the loop.
Fallback(c) ==
  /\ pc[c] = "fallback"
  /\ result' = [result EXCEPT ![c] = FallbackReturn(response[c])]
  /\ pc' = [pc EXCEPT ![c] = "done"]
  /\ UNCHANGED <<overlapped, server, client, store, planner, executor, threads, budget, inputs, session_id,
                 transcript, confidence, iter, plan, idx, response, pre,
                 before, executed, log>>

Next == \E c \in Calls : Begin(c) \/ Plan(c) \/ Exec(c) \/ Fallback(c)

Spec == Init /\ [][Next]_vars

SpecAny == InitAny /\ [][Next]_vars

\* The store after two calls on a new session "s1": "30" was said twice, the
\* first call asked the age, the second filled it and asked the income.
AfterAgeGiven ==
  LET a1 == add_history([s \in {"s1"} |-> NewSession], "s1", "user", U_30)
      a2 == ExecuteAskField(a1, "s1", "age").st
      b1 == add_history(a2, "s1", "user", U_30)
      b2 == ExecuteFillField(b1, "s1", "age", U_30).st
  IN ExecuteAskField(b2, "s1", "income").st

\* Two callers of the session "s1", which waits for the income: nothing
\* keeps one from calling while the other's call is running.
InitRace ==
  /\ store = AfterAgeGiven
  /\ planner \in {"Planner", "OneStep"} /\ executor = "Executor"
  /\ threads = Calls
  /\ budget = MaxRaceCalls
  /\ inputs = "race"
  /\ InitLocals

SpecRace == InitRace /\ [][Next]_vars

----------------------------------------------------------------------------
\* Executor.execute called on its own, with any step on any session id.

\* Steps of every kind, with and without the keys the executor reads.
DirectSteps ==
  {[step |-> "clarify_asr"], [step |-> "ask_field", field |-> "age"],
   [step |-> "ask_field", field |-> "income"],
   [step |-> "ask_field", field |-> "name"], [step |-> "ask_field"],
   [step |-> "fill_field", field |-> "age"],
   [step |-> "fill_field", field |-> "income"],
   [step |-> "fill_field", field |-> "name"],
   [step |-> "check_eligibility"],
   [step |-> "describe_scheme", query |-> U_about_pm],
   [step |-> "describe_scheme"], [step |-> "confirm"],
   [step |-> "submit_application"], [step |-> "noop"]}

DirectUtterances == {U_30, U_Yes_1500, U_hello}

\* The arguments of the direct calls. On a session that does not exist the
\* executor returns before it reads the transcript: one transcript is enough.
DirectInputs ==
  {<<step, "s1", t>> : step \in DirectSteps, t \in DirectUtterances}
    \cup {<<step, "unknown", U_Yes_1500>> : step \in DirectSteps}

\* One caller of the agent and of its executor; the planner is the real one
\* or one that names a step the executor does not know; the session "s1" is
\* in any state.
InitDirect ==
  /\ \E s \in AnySessions : store = [i \in {"s1"} |-> s]
  /\ planner \in {"Planner", "OneStep"} /\ executor = "Executor"
  /\ threads = {1}
  /\ budget = MaxAnyCalls
  /\ inputs = "some"
  /\ InitLocals

\* agent.executor.execute(step, session_id, transcript)
Execute(c) ==
  /\ c \in threads
  /\ pc[c] \in {"idle", "done", "raised", "executed"}
  /\ budget > 0
  /\ \E in \in DirectInputs :
       LET step == in[1]
           sid == in[2]
           t == in[3]
       IN
       \E env \in EnvironmentsOf(step, IF HasSession(store, sid) THEN store[sid]
                                         ELSE <<>>, t) :
         LET r == AgentExecute(executor, step, sid, t, store, env)
         IN /\ store' = r.st
            /\ session_id' = [session_id EXCEPT ![c] = sid]
            /\ transcript' = [transcript EXCEPT ![c] = t]
            /\ executed' = [executed EXCEPT ![c] = <<step>>]
            /\ log' = [log EXCEPT ![c] = r.log]
            /\ response' = [response EXCEPT ![c] = r.out]
            /\ pc' = [pc EXCEPT ![c] = IF r.raised THEN "raised" ELSE "executed"]
  /\ budget' = budget - 1
  /\ confidence' = [confidence EXCEPT ![c] = 100]
  /\ iter' = [iter EXCEPT ![c] = 0]
  /\ plan' = [plan EXCEPT ![c] = <<>>]
  /\ idx' = [idx EXCEPT ![c] = 0]
  /\ result' = [result EXCEPT ![c] = <<>>]
  /\ pre' = [pre EXCEPT ![c] = store]
  /\ before' = [before EXCEPT ![c] = store]
  /\ UNCHANGED <<overlapped, server, client, planner, executor, threads, inputs>>

NextDirect ==
  \E c \in Calls : Begin(c) \/ Plan(c) \/ Exec(c) \/ Fallback(c) \/ Execute(c)

SpecDirect == InitDirect /\ [][NextDirect]_vars

----------------------------------------------------------------------------
\* parse_confirmation called on its own, on a text put together from pieces.

Pieces ==
  {<<"y", "e", "s">>, <<"Y", "E">>, <<"S">>, <<"n", "o">>, <<"N">>, <<"o">>,
   <<"k">>, <<"w">>, <<" ">>, te_avunu, te_avu, te_sare, te_ledu, te_kadu,
   <<"te_a">>, <<"te_da", "te_u">>}

\* One caller; `budget` counts the pieces the text may still take.
InitParse ==
  /\ store = [s \in {"s1"} |-> NewSession]
  /\ planner = "Planner" /\ executor = "Executor"
  /\ threads = {1}
  /\ budget = MaxPieces
  /\ inputs = "text"
  /\ InitLocals

\* The caller's text grows by one piece.
Compose(c) ==
  /\ c \in threads
  /\ pc[c] = "idle"
  /\ budget > 0
  /\ \E piece \in Pieces : transcript' = [transcript EXCEPT ![c] = @ \o piece]
  /\ budget' = budget - 1
  /\ UNCHANGED <<overlapped, server, client, store, planner, executor, threads, inputs, pc, session_id,
                 confidence, iter, plan, idx, response, result, pre, before,
                 executed, log>>

\* parse_confirmation(transcript)
Parse(c) ==
  /\ c \in threads
  /\ pc[c] = "idle"
  /\ response' = [response EXCEPT ![c] =
                    [parsed |-> parse_confirmation(transcript[c])]]
  /\ pc' = [pc EXCEPT ![c] = "parsed"]
  /\ UNCHANGED <<overlapped, server, client, store, planner, executor, threads, budget, inputs, session_id,
                 transcript, confidence, iter, plan, idx, result, pre, before,
                 executed, log>>

NextParse == \E c \in Calls : Compose(c) \/ Parse(c)

SpecParse == InitParse /\ [][NextParse]_vars

----------------------------------------------------------------------------
\* RetryClient (src/retry_client.py). `client` holds the object's fields, the
\* locals of its run_flow call, and what the call did:
\*   transcribed  the transcribe_file calls: the path sent, the response
\*   recorded     the paths the recorder handed back
\*   prompts      the input() prompts shown
\*   agent_calls  the call_agent calls: arguments and response
\*   ret          what run_flow returned (<<>> for None), once pc = "returned"

\* dict.get(key, default)
GetOr(d, key, default) == IF Has(d, key) THEN d[key] ELSE default

\* What /transcribe answers: text, confidence and the low_confidence flag.
Transcriptions ==
  {[text |-> U_hello, confidence |-> 20, low_confidence |-> TRUE,
    clarify_prompt |-> <<"clarify_prompt">>],
   [text |-> U_30, confidence |-> 95, low_confidence |-> FALSE],
   [text |-> U_yes, confidence |-> 30, low_confidence |-> FALSE]}

\* What /agent answers.
AgentResponses ==
  {[session_id |-> "sess-1", status |-> "ask", reply |-> <<"ask", "age">>],
   [session_id |-> "sess-1", status |-> "clarify",
    reply |-> <<"clarify_asr">>, audio |-> "reply.mp3"]}

\* The paths an injected record_fn returns.
RecordedPaths == {"new_audio.wav", "new_audio_2.wav"}

\* The default recorder: its import fails, its recording fails, or it records.
RecorderOutcomes == {"unavailable", "fails", "records"}

\* What the user types at the prompt.
Answers == {<<>>, <<"r">>, <<" ", "R">>}

\* RetryClient(max_retries=..., auto_record=..., record_fn=...)
Clients ==
  [pc : {"idle"}, max_retries : 0..MaxRetries, auto_record : BOOLEAN,
   record_fn : {None, "record_fn"}, auto_retry : {FALSE}, attempts : {0},
   audio_path : {None}, last_transcript : {<<>>}, last_conf : {0},
   session_id : {None}, transcribed : {<<>>}, recorded : {<<>>},
   prompts : {0}, agent_calls : {<<>>}, ret : {<<>>}]

InitRetry ==
  /\ client \in Clients
  /\ server = NoServer
  /\ store = [s \in {"s1"} |-> NewSession]
  /\ planner = "Planner" /\ executor = "Executor"
  /\ threads = {}
  /\ budget = 0
  /\ inputs = "some"
  /\ InitCalls

\* `return value` inside run_flow
Return(cl, value) == [cl EXCEPT !.pc = "returned", !.ret = value]

\* the agent called on the last attempt whatever the flag says
RunFlowIteration_CallOnLow(cl, resp, rec, path, ans, agent_resp) ==
  LET c1 == [cl EXCEPT !.attempts = @ + 1,
                       !.transcribed =
                          Append(@, [path |-> cl.audio_path, resp |-> resp]),
                       !.last_transcript = GetOr(resp, "text", <<>>),
                       !.last_conf = GetOr(resp, "confidence", 0)]
  IN IF GetOr(resp, "low_confidence", FALSE) /\ c1.attempts < cl.max_retries
     THEN IF cl.auto_record
          THEN IF cl.record_fn = None
               THEN IF rec # "records" THEN Return(c1, <<>>)
                    ELSE [c1 EXCEPT !.audio_path = "tmp.wav",
                                    !.recorded = Append(@, "tmp.wav")]
               ELSE [c1 EXCEPT !.audio_path = path,
                               !.recorded = Append(@, path)]
          ELSE IF cl.auto_retry THEN c1
          ELSE LET c2 == [c1 EXCEPT !.prompts = @ + 1]
               IN IF Lower(Strip(ans)) = <<"r">> THEN Return(c2, <<>>)
                  ELSE c2
     ELSE LET call == [transcript |-> c1.last_transcript,
                       confidence |-> c1.last_conf,
                       session_id |-> c1.session_id, ret |-> agent_resp]
              c2 == [c1 EXCEPT !.agent_calls = Append(@, call),
                               !.session_id =
                                  GetOr(agent_resp, "session_id", @)]
          IN Return(c2, agent_resp)

\* the new recording made but the old file sent again
RunFlowIteration_SamePath(cl, resp, rec, path, ans, agent_resp) ==
  LET c1 == [cl EXCEPT !.attempts = @ + 1,
                       !.transcribed =
                          Append(@, [path |-> cl.audio_path, resp |-> resp]),
                       !.last_transcript = GetOr(resp, "text", <<>>),
                       !.last_conf = GetOr(resp, "confidence", 0)]
  IN IF GetOr(resp, "low_confidence", FALSE)
     THEN IF cl.auto_record
          THEN IF cl.record_fn = None
               THEN IF rec # "records" THEN Return(c1, <<>>)
                    ELSE [c1 EXCEPT !.audio_path = "tmp.wav",
                                    !.recorded = Append(@, "tmp.wav")]
               ELSE [c1 EXCEPT !.recorded = Append(@, path)]
          ELSE IF cl.auto_retry THEN c1
          ELSE LET c2 == [c1 EXCEPT !.prompts = @ + 1]
               IN IF Lower(Strip(ans)) = <<"r">> THEN Return(c2, <<>>)
                  ELSE c2
     ELSE LET call == [transcript |-> c1.last_transcript,
                       confidence |-> c1.last_conf,
                       session_id |-> c1.session_id, ret |-> agent_resp]
              c2 == [c1 EXCEPT !.agent_calls = Append(@, call),
                               !.session_id =
                                  GetOr(agent_resp, "session_id", @)]
          IN Return(c2, agent_resp)

\* One pass of the while loop: transcribe, then re-record, retry, prompt or
\* call the agent. resp, rec, path, ans and agent_resp are what the server,
\* the default recorder, record_fn, the user and the agent would answer.
RunFlowIteration(cl, resp, rec, path, ans, agent_resp) ==
  LET c1 == [cl EXCEPT !.attempts = @ + 1,
                       !.transcribed =
                          Append(@, [path |-> cl.audio_path, resp |-> resp]),
                       !.last_transcript = GetOr(resp, "text", <<>>),
                       !.last_conf = GetOr(resp, "confidence", 0)]
  IN IF GetOr(resp, "low_confidence", FALSE)
     THEN IF cl.auto_record
          THEN IF cl.record_fn = None
               THEN IF rec # "records" THEN Return(c1, <<>>)
                    ELSE [c1 EXCEPT !.audio_path = "tmp.wav",
                                    !.recorded = Append(@, "tmp.wav")]
               ELSE [c1 EXCEPT !.audio_path = path,
                               !.recorded = Append(@, path)]
          ELSE IF cl.auto_retry THEN c1
          ELSE LET c2 == [c1 EXCEPT !.prompts = @ + 1]
               IN IF Lower(Strip(ans)) = <<"r">> THEN Return(c2, <<>>)
                  ELSE c2
     ELSE LET call == [transcript |-> c1.last_transcript,
                       confidence |-> c1.last_conf,
                       session_id |-> c1.session_id, ret |-> agent_resp]
              c2 == [c1 EXCEPT !.agent_calls = Append(@, call),
                               !.session_id =
                                  GetOr(agent_resp, "session_id", @)]
          IN Return(c2, agent_resp)

\* client.run_flow(audio_path, auto_retry) up to the while loop
RunFlow ==
  /\ client.pc = "idle"
  /\ \E auto_retry \in BOOLEAN :
       client' = [client EXCEPT !.pc = "loop", !.auto_retry = auto_retry,
                                !.audio_path = "orig.mp3"]
  /\ UNCHANGED <<overlapped, server, store, planner, executor, threads, budget, inputs, pc,
                 session_id, transcript, confidence, iter, plan, idx, response,
                 result, pre, before, executed, log>>

\* while attempts < self.max_retries: one pass
Attempt ==
  /\ client.pc = "loop"
  /\ client.attempts < client.max_retries
  /\ \E resp \in Transcriptions, rec \in RecorderOutcomes,
        path \in RecordedPaths, ans \in Answers, agent_resp \in AgentResponses :
       client' = RunFlowIteration(client, resp, rec, path, ans, agent_resp)
  /\ UNCHANGED <<overlapped, server, store, planner, executor, threads, budget, inputs, pc,
                 session_id, transcript, confidence, iter, plan, idx, response,
                 result, pre, before, executed, log>>

\* the loop's condition fails: "Max retries reached", return None
GiveUp ==
  /\ client.pc = "loop"
  /\ client.attempts >= client.max_retries
  /\ client' = Return(client, <<>>)
  /\ UNCHANGED <<overlapped, server, store, planner, executor, threads, budget, inputs, pc,
                 session_id, transcript, confidence, iter, plan, idx, response,
                 result, pre, before, executed, log>>

NextRetry == RunFlow \/ Attempt \/ GiveUp

SpecRetry == InitRetry /\ [][NextRetry]_vars

----------------------------------------------------------------------------
\* ASR wrapper (src/asr.py). Log-probabilities and confidences are in
\* hundredths.

RECURSIVE Sum(_)
Sum(vals) == IF vals = <<>> THEN 0 ELSE vals[1] + Sum(Tail(vals))

Min(a, b) == IF a < b THEN a ELSE b

Max(a, b) == IF a > b THEN a ELSE b

\* The segments of a Whisper result: a segment without avg_logprob is <<>>.
\* The means of these lists are whole hundredths.
SegmentLists ==
  {<<>>, <<<<>>>>, <<[avg_logprob |-> -41]>>, <<[avg_logprob |-> -40]>>,
   <<[avg_logprob |-> -20], [avg_logprob |-> -40]>>,
   <<[avg_logprob |-> -30], <<>>>>, <<[avg_logprob |-> 10]>>,
   <<[avg_logprob |-> -150]>>}

compute_confidence(whisper_result) ==
  LET segments == GetOr(whisper_result, "segments", <<>>)
      with == SelectSeq(segments, LAMBDA seg : Has(seg, "avg_logprob"))
      vals == [i \in 1..Len(with) |-> with[i].avg_logprob]
  IN IF segments = <<>> THEN 0
     ELSE IF vals = <<>> THEN 0
     ELSE LET mean == Sum(vals) \div Len(vals)
              conf == 100 + mean
          IN Max(0, Min(100, conf))

\* What model.transcribe hands back.
HeardTexts == {U_30, U_no}
WhisperResults == [text : HeardTexts, segments : SegmentLists]

\* transcribe_file: the exception raised, or the dict returned.
transcribe_file(use_cloud, installed, whisper_result) ==
  IF use_cloud THEN [raised |-> "NotImplementedError", ret |-> <<>>]
  ELSE IF ~installed THEN [raised |-> "RuntimeError", ret |-> <<>>]
  ELSE [raised |-> None,
        ret |-> [text |-> Strip(GetOr(whisper_result, "text", <<>>)),
                 confidence |-> compute_confidence(whisper_result)]]

----------------------------------------------------------------------------
\* HTTP server (src/server.py). `server` holds the module's configuration,
\* the last response of /transcribe and, per caller, the last response of
\* /agent. Thresholds are in hundredths.

\* os.getenv("ASR_CONFIDENCE_THRESHOLD", "0.6") with the variable unset
DefaultThreshold == 60

\* The values ASR_CONFIDENCE_THRESHOLD is set to.
Thresholds == {DefaultThreshold, 80}

\* The values ASR_PROVIDER is set to.
Providers == {"local", "cloud"}

Servers ==
  [pc : {"up"}, provider : Providers, threshold : Thresholds,
   transcribed : {<<>>}, http : {[c \in Calls |-> <<>>]}]

\* The identifiers create_session hands out, in order.
SessionPool == <<"s1", "s2">>

create_session(st) ==
  SessionPool[CHOOSE i \in 1..Len(SessionPool) :
                /\ SessionPool[i] \notin DOMAIN st
                /\ \A j \in 1..(i - 1) : SessionPool[j] \in DOMAIN st]

\* The dict /transcribe returns for a transcription.
TranscribeResponse(asr_result, threshold) ==
  LET text == GetOr(asr_result, "text", <<>>)
      conf == GetOr(asr_result, "confidence", 0)
      low_confidence == conf < threshold
      resp == [text |-> text, confidence |-> conf,
               low_confidence |-> low_confidence]
  IN IF low_confidence THEN resp @@ [clarify_prompt |-> <<"clarify_prompt">>]
     ELSE resp

\* One caller; no session exists yet; the variables of the environment were
\* read when the module was loaded.
InitServer ==
  /\ store = [s \in {} |-> NewSession]
  /\ planner \in {"Planner", "OneStep"} /\ executor = "Executor"
  /\ threads = {1}
  /\ budget = MaxRequests
  /\ inputs = "some"
  /\ client = NoClient
  /\ server \in Servers
  /\ InitCalls

\* POST /transcribe
Transcribe ==
  /\ server.pc = "up"
  /\ budget > 0
  /\ \E installed \in BOOLEAN, w \in WhisperResults :
       LET r == transcribe_file(server.provider # "local", installed, w)
       IN server' =
            [server EXCEPT !.transcribed =
               IF r.raised = "NotImplementedError" THEN [code |-> 501]
               ELSE IF r.raised # None THEN [code |-> 500]
               ELSE TranscribeResponse(r.ret, server.threshold)]
  /\ budget' = budget - 1
  /\ UNCHANGED <<overlapped, client, store, planner, executor, threads, inputs, pc,
                 session_id, transcript, confidence, iter, plan, idx, response,
                 result, pre, before, executed, log>>

\* The payloads posted to /agent: the session identifier is left out, unknown
\* or one the server handed out; the transcript is the one /transcribe
\* returned last, with its confidence, or a typed one without confidence, or
\* it is left out.
Payloads(st, srv) ==
  LET ids == {<<>>, [session_id |-> "unknown"]}
               \cup {[session_id |-> sid] : sid \in DOMAIN st}
      said == {<<>>, [transcript |-> U_30]}
                \cup (IF Has(srv.transcribed, "text")
                      THEN {[transcript |-> srv.transcribed.text,
                             confidence |-> srv.transcribed.confidence]}
                      ELSE {})
  IN {i @@ t : i \in ids, t \in said}

\* POST /agent up to the for loop of process_input
AgentEndpoint(c) ==
  /\ server.pc = "up"
  /\ c \in threads
  /\ pc[c] \in {"idle", "responded", "raised"}
  /\ budget > 0
  /\ \E payload \in Payloads(store, server) :
       LET t == GetOr(payload, "transcript", <<>>)
           conf == GetOr(payload, "confidence", 100)
           creates == ~Has(payload, "session_id")
       IN /\ IF creates THEN Cardinality(DOMAIN store) < Len(SessionPool)
             ELSE TRUE
          /\ LET sid == IF creates THEN create_session(store)
                        ELSE payload.session_id
                 st1 == IF creates THEN (sid :> NewSession) @@ store
                        ELSE store
             IN /\ session_id' = [session_id EXCEPT ![c] = sid]
                /\ transcript' = [transcript EXCEPT ![c] = t]
                /\ confidence' = [confidence EXCEPT ![c] = conf]
                /\ pre' = [pre EXCEPT ![c] = st1]
                /\ before' = [before EXCEPT ![c] = st1]
                /\ IF t = <<>>
                   THEN \* HTTPException(status_code=400)
                        /\ store' = st1
                        /\ server' = [server EXCEPT !.http[c] = [code |-> 400]]
                        /\ pc' = [pc EXCEPT ![c] = "responded"]
                        /\ result' = [result EXCEPT ![c] = <<>>]
                   ELSE IF ~HasSession(st1, sid)
                   THEN /\ store' = st1
                        /\ server' = [server EXCEPT !.http[c] = <<>>]
                        /\ pc' = [pc EXCEPT ![c] = "done"]
                        /\ result' = [result EXCEPT ![c] =
                                        [status |-> "error",
                                         error |-> "session_not_found"]]
                   ELSE /\ store' = add_history(st1, sid, "user", t)
                        /\ server' = [server EXCEPT !.http[c] = <<>>]
                        /\ pc' = [pc EXCEPT ![c] = "plan"]
                        /\ result' = [result EXCEPT ![c] = <<>>]
  /\ budget' = budget - 1
  /\ iter' = [iter EXCEPT ![c] = 0]
  /\ plan' = [plan EXCEPT ![c] = <<>>]
  /\ idx' = [idx EXCEPT ![c] = 0]
  /\ response' = [response EXCEPT ![c] = <<>>]
  /\ executed' = [executed EXCEPT ![c] = <<>>]
  /\ log' = [log EXCEPT ![c] = <<>>]
  /\ overlapped' = IF Running(threads \ {c}) THEN TRUE ELSE overlapped
  /\ UNCHANGED <<client, planner, executor, threads, inputs>>

\* The dict /agent returns.
AgentResponse(sid, r) ==
  [session_id |-> sid]
    @@ Restrict(r, {"status", "reply", "eligible", "application_id"})
    @@ (IF HasReply(r) THEN [audio |-> <<"reply_", sid, ".mp3">>] ELSE <<>>)

\* POST /agent after process_input returned: the reply is synthesised and
\* the response built.
Respond(c) ==
  /\ server.pc = "up"
  /\ pc[c] = "done"
  /\ \E tts_fails \in BOOLEAN :
       IF HasReply(result[c]) /\ tts_fails
       THEN /\ pc' = [pc EXCEPT ![c] = "raised"]
            /\ server' = server
       ELSE /\ pc' = [pc EXCEPT ![c] = "responded"]
            /\ server' = [server EXCEPT !.http[c] =
                            AgentResponse(session_id[c], result[c])]
  /\ UNCHANGED <<overlapped, client, store, planner, executor, threads, budget, inputs,
                 session_id, transcript, confidence, iter, plan, idx, response,
                 result, pre, before, executed, log>>

NextServer ==
  \/ Transcribe
  \/ \E c \in Calls :
       AgentEndpoint(c) \/ Plan(c) \/ Exec(c) \/ Fallback(c) \/ Respond(c)

SpecServer == InitServer /\ [][NextServer]_vars

----------------------------------------------------------------------------
\* Vocabulary of the properties

Real == planner = "Planner" /\ executor = "Executor"

\* Call c is on a session that existed when the call began.
OnSession(c) == pc[c] # "idle" /\ HasSession(pre[c], session_id[c])

Returned(c) == pc[c] = "done" /\ OnSession(c)

PreSession(c) == pre[c][session_id[c]]

Session(c) == store[session_id[c]]

Submissions(c) == SelectSeq(log[c], LAMBDA i : i.fn = "submit_application")

SaysYes(t) == \E tok \in yes_tokens : Contains(tok, Lower(t))

SaysNo(t) == \E tok \in no_tokens : Contains(tok, Lower(t))

\* The utterances by what they say, each set computed once.
AffirmativeOnes == {t \in AllUtterances : SaysYes(t) /\ ~SaysNo(t)}

NegativeOnes == {t \in AllUtterances : SaysNo(t) /\ ~SaysYes(t)}

DetailsOnes ==
  {t \in AllUtterances : \E k \in details_keywords : Contains(k, Lower(t))}

Affirmative(t) == t \in AffirmativeOnes

Negative(t) == t \in NegativeOnes

Ambiguous(t) == ~Affirmative(t) /\ ~Negative(t)

AsksDetails(t) == t \in DetailsOnes

\* s holds n digits in a row.
HasDigits(s, n) ==
  \E i \in 1..(Len(s) - n + 1) : \A j \in i..(i + n - 1) : s[j] \in Digits

\* The utterances that hold a number the field accepts, computed once.
ValidOnes ==
  [field \in {"age", "income"} |->
     {t \in AllUtterances :
        IF field = "age" THEN HasDigits(t, 1)
        ELSE HasDigits(Remove(",", t), 3)}]

ValidFor(field, t) == t \in ValidOnes[field]

\* The number the field takes from the utterances that hold one.
NumberIn(field, t) ==
  CASE t = U_30 -> 30
    [] t = U_Yes_1500 /\ field = "age" -> 1
    [] t = U_Yes_1500 /\ field = "income" -> 1500

ClarifyStep == [step |-> "clarify_asr"]

----------------------------------------------------------------------------
\* C1: whatever the session and the utterance, the planner answers a
\* confidence below 0.6 with the one step clarify_asr and nothing else.
C1_ConfidenceGateDominates ==
  \A c \in Calls :
    (pc[c] = "exec" /\ planner = "Planner" /\ confidence[c] < 60)
      => plan[c] = <<ClarifyStep>>

C1_Witness ==
  \E c \in Calls :
    /\ pc[c] = "exec" /\ planner = "Planner" /\ confidence[c] = 59
    /\ transcript[c] = U_yes
    /\ PreSession(c).waiting_for = "confirmation"
    /\ PreSession(c).last_eligibility # <<>>
    /\ plan[c] = <<ClarifyStep>>

\* C2: the real agent submits an application only in a call that began
\* waiting on the confirmation, with confidence at least 0.6 and an
\* affirmative utterance without a details keyword; that call executes the
\* confirm step alone, submits exactly once with the session's profile, and
\* its response carries the identifier the submission returned.
C2_SubmitOnlyOnConfirmation ==
  \A c \in Calls :
    (Real /\ OnSession(c)) =>
      LET subs == Submissions(c)
          asked == /\ PreSession(c).waiting_for = "confirmation"
                   /\ confidence[c] >= 60
                   /\ ~AsksDetails(transcript[c])
                   /\ Affirmative(transcript[c])
      IN /\ subs # <<>> =>
              /\ asked
              /\ executed[c] = <<[step |-> "confirm"]>>
              /\ Len(subs) = 1
              /\ subs[1].arg = PreSession(c).profile
              /\ subs[1].arg = Session(c).profile
         /\ (asked /\ pc[c] \in {"done", "raised"}) => Len(subs) = 1
         /\ (asked /\ pc[c] = "done") =>
              /\ ~subs[1].raised
              /\ result[c].status = "submitted"
              /\ Has(result[c], "application_id")
              /\ result[c].application_id = subs[1].ret
              /\ result[c].reply = <<"submitted", subs[1].ret>>

C2_Witness ==
  \E c \in Calls :
    /\ Real /\ Returned(c)
    /\ Len(Submissions(c)) = 1
    /\ result[c].status = "submitted"
    /\ result[c].application_id = "APP-2"
    /\ Has(PreSession(c).profile, "income")

\* C3: with a planner that always yields a step and an executor that always
\* returns "filled" without a reply, process_input runs exactly 5 iterations,
\* 5 planner calls and 5 executor calls, and is never stuck before it returns.
C3_FilledStubRunsFiveIterations ==
  \A c \in Calls :
    (executor = "AlwaysFilled" /\ planner \in {"OneStep", "TwoSteps"}
       /\ OnSession(c))
      => /\ iter[c] <= 5 /\ Len(executed[c]) <= 5
         /\ pc[c] # "raised"
         /\ pc[c] \in {"fallback", "done"} =>
              (iter[c] = 5 /\ Len(executed[c]) = 5)
         /\ pc[c] \in {"plan", "exec", "fallback"} =>
              ENABLED (Plan(c) \/ Exec(c) \/ Fallback(c))

C3_Witness ==
  \E c \in Calls :
    /\ executor = "AlwaysFilled" /\ planner = "TwoSteps"
    /\ Returned(c) /\ iter[c] = 5 /\ Len(executed[c]) = 5

\* C4: when the 5 iterations are used up and every step returned "filled"
\* without a reply, the call returns status "no_action" with an empty reply.
C4_ExhaustedBoundReturnsNoAction ==
  \A c \in Calls :
    (Returned(c) /\ iter[c] = 5 /\ Len(executed[c]) = 5
       /\ ~HasReply(response[c]) /\ Has(response[c], "status")
       /\ response[c].status = "filled")
      => result[c] = [status |-> "no_action", reply |-> <<>>]

\* C5: a call of the real agent with confidence below 0.6 on an existing
\* session changes neither the profile nor the offers, invokes no
\* collaborator, returns the fixed clarification reply with status "clarify"
\* and leaves the session waiting for nothing.
C5_LowConfidenceOnlyClarifies ==
  \A c \in Calls :
    (Real /\ OnSession(c) /\ confidence[c] < 60) =>
      /\ Session(c).profile = PreSession(c).profile
      /\ Session(c).last_eligibility = PreSession(c).last_eligibility
      /\ log[c] = <<>>
      /\ pc[c] \notin {"fallback", "raised"}
      /\ \A i \in 1..Len(executed[c]) : executed[c][i] = ClarifyStep
      /\ pc[c] = "done" =>
           /\ executed[c] = <<ClarifyStep>>
           /\ result[c] = [status |-> "clarify", reply |-> <<"clarify_asr">>]
           /\ Session(c).waiting_for = None

C5_Witness ==
  \E c \in Calls :
    /\ Real /\ Returned(c) /\ confidence[c] = 59
    /\ Affirmative(transcript[c])
    /\ PreSession(c).waiting_for = "confirmation"
    /\ result[c].status = "clarify"
    /\ Session(c).waiting_for = None

\* The first required field the profile lacks, in the order age, income.
NextMissing(profile) ==
  IF ~Has(profile, "age") THEN "age"
  ELSE IF ~Has(profile, "income") THEN "income"
  ELSE None

Last(seq) == seq[Len(seq)]

\* C6: a call of the real agent with confidence at least 0.6 on a session
\* waiting on age or income, whose utterance holds a valid number for the
\* field, stores the number, clears waiting_for without a reply, plans again
\* in the same call and returns the next step's reply: the question for the
\* next missing field, or the eligibility result. No call returns "filled".
C6_FillContinuesInSameCall ==
  \A c \in Calls :
    /\ (Real /\ Returned(c)) => result[c].status # "filled"
    /\ (Real /\ OnSession(c) /\ confidence[c] >= 60
          /\ PreSession(c).waiting_for \in {"age", "income"}
          /\ ValidFor(PreSession(c).waiting_for, transcript[c])) =>
         LET f == PreSession(c).waiting_for
             next == NextMissing(Session(c).profile)
         IN /\ pc[c] # "fallback"
            /\ executed[c] # <<>> =>
                 /\ executed[c][1] = [step |-> "fill_field", field |-> f]
                 /\ Has(Session(c).profile, f)
                 /\ Session(c).profile[f] = NumberIn(f, transcript[c])
            /\ Len(executed[c]) = 1 =>
                 /\ pc[c] \in {"plan", "exec"}
                 /\ response[c] = [status |-> "filled", field |-> f]
                 /\ Session(c).waiting_for = None
                 /\ Session(c).history =
                      Append(PreSession(c).history, <<"user", transcript[c]>>)
            /\ pc[c] = "raised" =>
                 executed[c][2] = [step |-> "check_eligibility"]
            /\ pc[c] = "done" =>
                 /\ Len(executed[c]) = 2
                 /\ HasReply(result[c])
                 /\ Last(Session(c).history) = <<"assistant", result[c].reply>>
                 /\ IF next # None
                    THEN /\ executed[c][2] = [step |-> "ask_field", field |-> next]
                         /\ result[c] = [status |-> "ask", reply |-> <<"ask", next>>]
                         /\ Session(c).waiting_for = next
                    ELSE /\ executed[c][2] = [step |-> "check_eligibility"]
                         /\ result[c].status = "eligible_check"

C6_Witness ==
  \E c \in Calls :
    /\ Real /\ Returned(c) /\ confidence[c] = 60
    /\ PreSession(c).waiting_for = "age"
    /\ transcript[c] = U_30
    /\ Session(c).profile = [age |-> 30]
    /\ Len(executed[c]) = 2
    /\ result[c] = [status |-> "ask", reply |-> <<"ask", "income">>]
    /\ Session(c).waiting_for = "income"

\* C7: a call of the real agent with confidence at least 0.6 on a session
\* that waits for nothing and lacks a required field returns the question for
\* the first missing field (age before income), sets waiting_for to that
\* field and leaves the profile as it was, whatever the utterance.
C7_AskFirstMissingField ==
  \A c \in Calls :
    (Real /\ OnSession(c) /\ confidence[c] >= 60
       /\ PreSession(c).waiting_for = None
       /\ NextMissing(PreSession(c).profile) # None) =>
      LET f == NextMissing(PreSession(c).profile)
      IN /\ Session(c).profile = PreSession(c).profile
         /\ log[c] = <<>>
         /\ pc[c] \notin {"fallback", "raised"}
         /\ pc[c] = "done" =>
              /\ executed[c] = <<[step |-> "ask_field", field |-> f]>>
              /\ result[c] = [status |-> "ask", reply |-> <<"ask", f>>]
              /\ Session(c).waiting_for = f

C7_Witness ==
  \E c \in Calls :
    /\ Real /\ Returned(c) /\ confidence[c] = 60
    /\ PreSession(c).waiting_for = None
    /\ PreSession(c).profile = <<>>
    /\ transcript[c] = U_Yes_1500
    /\ result[c] = [status |-> "ask", reply |-> <<"ask", "age">>]
    /\ Session(c).waiting_for = "age"
    /\ Session(c).profile = <<>>

\* C8: after a check_eligibility step whose evaluator returned a non-empty
\* list the session waits on the confirmation and last_eligibility is that
\* list; after one whose evaluator returned the empty list the session waits
\* for nothing and the reply is the no-matching-offer reply. The profile is
\* unchanged by the step.
C8_CheckEligibilityOutcome ==
  \A c \in Calls :
    (executor = "Executor" /\ OnSession(c) /\ executed[c] # <<>>
       /\ Last(executed[c]).step = "check_eligibility" /\ pc[c] # "raised") =>
      LET call == Last(log[c])
      IN /\ call.fn = "check_eligibility" /\ ~call.raised
         /\ call.ret # <<>> =>
              /\ Session(c).waiting_for = "confirmation"
              /\ Session(c).last_eligibility = call.ret
         /\ call.ret = <<>> =>
              /\ Session(c).waiting_for = None
              /\ response[c].reply = <<"not_eligible">>
         /\ Session(c).profile = before[c][session_id[c]].profile
         /\ response[c].status = "eligible_check"
         /\ response[c].eligible = call.ret

C8_Witness ==
  \E c \in Calls :
    /\ executor = "Executor" /\ Returned(c)
    /\ executed[c] # <<>>
    /\ Last(executed[c]).step = "check_eligibility"
    /\ Last(log[c]).ret = <<Offer1, Offer2>>
    /\ Session(c).waiting_for = "confirmation"
    /\ Session(c).last_eligibility = <<Offer1, Offer2>>

\* C9: a call of the real agent with confidence at least 0.6 on a session
\* waiting on the confirmation, whose utterance holds a negative token, no
\* affirmative token and no details keyword, returns the decline reply with
\* status "declined", leaves the session waiting for nothing, changes
\* neither the profile nor the offers and submits nothing.
C9_NegativeDeclines ==
  \A c \in Calls :
    (Real /\ OnSession(c) /\ confidence[c] >= 60
       /\ PreSession(c).waiting_for = "confirmation"
       /\ Negative(transcript[c]) /\ ~AsksDetails(transcript[c])) =>
      /\ log[c] = <<>>
      /\ Session(c).profile = PreSession(c).profile
      /\ Session(c).last_eligibility = PreSession(c).last_eligibility
      /\ pc[c] \notin {"fallback", "raised"}
      /\ pc[c] = "done" =>
           /\ executed[c] = <<[step |-> "confirm"]>>
           /\ result[c] = [status |-> "declined", reply |-> <<"declined">>]
           /\ Session(c).waiting_for = None

C9_Witness ==
  \E c \in Calls :
    /\ Real /\ Returned(c) /\ confidence[c] = 60
    /\ PreSession(c).waiting_for = "confirmation"
    /\ transcript[c] = U_no
    /\ result[c].status = "declined"
    /\ Session(c).waiting_for = None
    /\ Session(c).last_eligibility # <<>>

\* The call of c that returned last ended in one of the two self-loops.
AskedAgain(d) == Has(d, "reply") /\ Len(d.reply) = 2 /\ d.reply[1] = "ask_again"

ConfirmAsked(d) == Has(d, "status") /\ d.status = "confirm_ask"

\* The first plan of the call that follows the call that returned last.
FirstPlan(c) == Real /\ OnSession(c) /\ pc[c] = "exec" /\ iter[c] = 1

\* C10, as claimed: after either self-loop the next call with confidence at
\* least 0.6 plans the same step again.
C10_SameStepPlannedAgain ==
  \A c \in Calls :
    (FirstPlan(c) /\ confidence[c] >= 60) =>
      /\ AskedAgain(result[c]) =>
           plan[c] = <<[step |-> "fill_field", field |-> result[c].reply[2]]>>
      /\ ConfirmAsked(result[c]) => plan[c] = <<[step |-> "confirm"]>>

\* C10, amended: a fill_field step that finds no value for the pending
\* field and a confirm step on an ambiguous utterance each return a reply
\* that asks again and leave waiting_for, the profile and the offers as they
\* were, with no collaborator invoked. The next call with confidence at least
\* 0.6 plans fill_field for the same field, respectively confirm unless its
\* utterance holds a details keyword, and then describe_scheme.
C10_SelfLoopsPreserveSession ==
  \A c \in Calls :
    /\ (Real /\ OnSession(c) /\ confidence[c] >= 60
          /\ \/ /\ PreSession(c).waiting_for \in {"age", "income"}
                /\ ~ValidFor(PreSession(c).waiting_for, transcript[c])
             \/ /\ PreSession(c).waiting_for = "confirmation"
                /\ ~AsksDetails(transcript[c])
                /\ Ambiguous(transcript[c])) =>
         LET w == PreSession(c).waiting_for
         IN /\ Session(c).waiting_for = w
            /\ Session(c).profile = PreSession(c).profile
            /\ Session(c).last_eligibility = PreSession(c).last_eligibility
            /\ log[c] = <<>>
            /\ pc[c] \notin {"fallback", "raised"}
            /\ pc[c] = "done" =>
                 /\ Len(executed[c]) = 1
                 /\ result[c] =
                      IF w = "confirmation"
                      THEN [status |-> "confirm_ask", reply |-> <<"confirm_ask">>]
                      ELSE [status |-> "ask", reply |-> <<"ask_again", w>>]
    /\ (FirstPlan(c) /\ confidence[c] >= 60) =>
         /\ AskedAgain(result[c]) =>
              plan[c] = <<[step |-> "fill_field", field |-> result[c].reply[2]]>>
         /\ ConfirmAsked(result[c]) =>
              plan[c] = IF AsksDetails(transcript[c])
                        THEN <<[step |-> "describe_scheme",
                                query |-> transcript[c]]>>
                        ELSE <<[step |-> "confirm"]>>

\* An ambiguous confirm was followed by a call that planned confirm again.
C10_Witness ==
  \E c \in Calls :
    /\ FirstPlan(c) /\ confidence[c] = 60
    /\ ConfirmAsked(result[c])
    /\ PreSession(c).waiting_for = "confirmation"
    /\ plan[c] = <<[step |-> "confirm"]>>

\* C11: on a session id the store does not know, Executor.execute returns
\* for every step kind the outcome {status error, error no_session} and
\* process_input returns {status error, error session_not_found}; neither
\* carries a reply, no collaborator is invoked, no step is planned or
\* executed by process_input, and the store (every session, every history,
\* the set of sessions) is exactly as it was.
C11_UnknownSessionIsAnError ==
  \A c \in Calls :
    (pc[c] # "idle" /\ ~HasSession(pre[c], session_id[c])) =>
      /\ store = pre[c]
      /\ log[c] = <<>>
      /\ pc[c] \in {"done", "executed"}
      /\ pc[c] = "done" =>
           /\ result[c] = [status |-> "error", error |-> "session_not_found"]
           /\ executed[c] = <<>> /\ iter[c] = 0
      /\ pc[c] = "executed" =>
           /\ response[c] = [status |-> "error", error |-> "no_session"]
           /\ ~HasReply(response[c])

C11_Witness ==
  \E c \in Calls :
    /\ pc[c] = "executed" /\ session_id[c] = "unknown"
    /\ executed[c] = <<[step |-> "confirm"]>>
    /\ transcript[c] = U_Yes_1500
    /\ store["s1"].waiting_for = "confirmation"
    /\ response[c].status = "error"
    /\ DOMAIN store = {"s1"}

\* The step the decision table names for a session, an utterance and a
\* confidence.
TableStep(session, t, conf) ==
  LET w == session.waiting_for
  IN IF conf < 60 THEN ClarifyStep
     ELSE IF w = "confirmation"
     THEN IF AsksDetails(t) THEN [step |-> "describe_scheme", query |-> t]
          ELSE [step |-> "confirm"]
     ELSE IF w # None THEN [step |-> "fill_field", field |-> w]
     ELSE IF NextMissing(session.profile) # None
     THEN [step |-> "ask_field", field |-> NextMissing(session.profile)]
     ELSE [step |-> "check_eligibility"]

\* C12: for every session, utterance and confidence Planner.plan returns
\* exactly one step, the one the first matching rule names: clarify_asr below
\* 0.6; else on confirmation describe_scheme with the raw utterance as query
\* when the utterance holds a details keyword (a yes/no token beside it
\* changes nothing) and confirm otherwise; else fill_field for the awaited
\* field; else ask_field for the first missing of age, income; else
\* check_eligibility. Planning leaves the session as it was: when the first
\* plan of a call is made the store differs from the store the call began
\* with by the user's turn only.
C12_PlannerDecisionTable ==
  \A c \in Calls :
    (planner = "Planner" /\ OnSession(c) /\ pc[c] = "exec" /\ iter[c] = 1) =>
      /\ Len(plan[c]) = 1
      /\ plan[c][1] = TableStep(PreSession(c), transcript[c], confidence[c])
      /\ store = add_history(pre[c], session_id[c], "user", transcript[c])

C12_Witness ==
  \E c \in Calls :
    /\ planner = "Planner" /\ OnSession(c) /\ pc[c] = "exec" /\ iter[c] = 1
    /\ confidence[c] = 60
    /\ PreSession(c).waiting_for = "confirmation"
    /\ transcript[c] = U_more_yes
    /\ plan[c] = <<[step |-> "describe_scheme", query |-> U_more_yes]>>

\* The step call c executed last, and the session before and after it.
LastStep(c) == Last(executed[c])

StepRan(c) ==
  /\ pc[c] # "idle" /\ executed[c] # <<>>
  /\ executor = "Executor" /\ HasSession(before[c], session_id[c])

BeforeStep(c) == before[c][session_id[c]]

\* C13: a describe_scheme step that returns, with a match ("describe") or
\* without one ("no_details"), leaves the session waiting on the
\* confirmation; one that raises leaves the whole store as it was, so a
\* pending confirmation stays pending either way. The step changes neither
\* last_eligibility nor the profile and does not invoke submit_application.
\* Over all steps, last_eligibility changes only in a check_eligibility step.
C13_DescribeKeepsConfirmation ==
  \A c \in Calls :
    StepRan(c) =>
      /\ LastStep(c).step = "describe_scheme" =>
           /\ pc[c] # "raised" =>
                /\ Session(c).waiting_for = "confirmation"
                /\ response[c].status \in {"describe", "no_details"}
                /\ HasReply(response[c])
           /\ pc[c] = "raised" => store = before[c]
           /\ BeforeStep(c).waiting_for = "confirmation" =>
                Session(c).waiting_for = "confirmation"
           /\ Session(c).last_eligibility = BeforeStep(c).last_eligibility
           /\ Session(c).profile = BeforeStep(c).profile
           /\ Submissions(c) = <<>>
      /\ Session(c).last_eligibility # BeforeStep(c).last_eligibility =>
           LastStep(c).step = "check_eligibility"

\* A description was returned from the global search while two other offers
\* were pending.
C13_Witness ==
  \E c \in Calls :
    /\ StepRan(c) /\ LastStep(c).step = "describe_scheme"
    /\ pc[c] = "done"
    /\ result[c].status = "describe"
    /\ result[c].reply = <<"describe", "rythu", "description">>
    /\ BeforeStep(c).last_eligibility = <<Offer1>>
    /\ Session(c).last_eligibility = <<Offer1>>
    /\ Session(c).waiting_for = "confirmation"

\* C14: parse_confirmation returns for every text, the empty one included,
\* one of yes (True), no (False), unclear (None): yes exactly when the
\* lower-cased text holds an affirmative token and no negative token, no
\* exactly when it holds a negative token and no affirmative one, unclear
\* exactly when it holds both or none. A token occurs where its characters
\* occur in a row, inside a longer word too ("no" in "know").
C14_ParseConfirmationTable ==
  \A c \in Calls :
    pc[c] = "parsed" =>
      LET t == transcript[c]
          parsed == response[c].parsed
      IN /\ parsed \in {"yes", "no", "unclear"}
         /\ parsed = "yes" <=> (SaysYes(t) /\ ~SaysNo(t))
         /\ parsed = "no" <=> (SaysNo(t) /\ ~SaysYes(t))
         /\ parsed = "unclear" <=> (SaysYes(t) <=> SaysNo(t))
         /\ t = <<>> => parsed = "unclear"

\* "YESno": both kinds of token.
C14_Witness ==
  \E c \in Calls :
    /\ pc[c] = "parsed"
    /\ transcript[c] = <<"Y", "E", "S", "n", "o">>
    /\ response[c].parsed = "unclear"

\* The collaborator invocations of call c that raised.
Failures(c) == {i \in 1..Len(log[c]) : log[c][i].raised}

\* C15, as claimed: when a collaborator invoked by a step of a process_input
\* call fails, that collaborator was invoked once in the call and nothing
\* was invoked after it, the loop plans and executes nothing more, and the
\* step yields an error outcome: an outcome with status "error" and no
\* reply, which the call hands to its caller.
C15_FailureIsAnErrorOutcome ==
  \A c \in Calls :
    (OnSession(c) /\ executor = "Executor" /\ pc[c] # "executed"
       /\ Failures(c) # {}) =>
      /\ \A i \in Failures(c) :
           /\ i = Len(log[c])
           /\ \A j \in 1..Len(log[c]) : log[c][j].fn = log[c][i].fn => j = i
      /\ pc[c] \notin {"plan", "exec", "fallback"}
      /\ pc[c] = "done"
      /\ Has(response[c], "status") /\ response[c].status = "error"
      /\ ~HasReply(response[c])
      /\ Has(result[c], "status") /\ result[c].status = "error"

\* run_flow was called.
Flowing == client.pc \in {"loop", "returned"}

Transcribed == Len(client.transcribed)

\* The i-th transcription of the run_flow call was flagged low_confidence.
Low(i) == GetOr(client.transcribed[i].resp, "low_confidence", FALSE)

\* The agent was called once, with the text and the confidence of the last
\* transcription, and run_flow returned what the agent answered.
AgentCalledOnLast ==
  /\ Len(client.agent_calls) = 1
  /\ client.agent_calls[1].transcript = client.transcribed[Transcribed].resp.text
  /\ client.agent_calls[1].confidence =
       client.transcribed[Transcribed].resp.confidence
  /\ client.ret = client.agent_calls[1].ret
  /\ client.ret \in AgentResponses

\* What holds of every run_flow call: at most max_retries transcriptions,
\* none after one that is not flagged, and the agent called only on one that
\* is not flagged, after which the call returns at once.
FlowSafe ==
  /\ Transcribed <= client.max_retries
  /\ \A i \in 1..(Transcribed - 1) : Low(i)
  /\ client.agent_calls # <<>> =>
       (~Low(Transcribed) /\ AgentCalledOnLast /\ client.pc = "returned")
  /\ client.pc = "loop" => \A i \in 1..Transcribed : Low(i)

\* run_flow returned as the claim says: after the first transcription that
\* is not flagged with the agent's response, or after max_retries flagged
\* transcriptions with None and no agent call.
FlowOutcome ==
  IF Transcribed > 0 /\ ~Low(Transcribed) THEN AgentCalledOnLast
  ELSE /\ Transcribed = client.max_retries
       /\ client.agent_calls = <<>>
       /\ client.ret = <<>>

C17_AutoRecordUsesNewPath ==
  (Flowing /\ client.auto_record /\ client.record_fn # None) =>
    /\ FlowSafe
    /\ client.prompts = 0
    /\ Len(client.recorded) =
         Cardinality({i \in 1..Transcribed : Low(i)})
    /\ \A i \in 1..Transcribed :
         client.transcribed[i].path =
           IF i = 1 THEN "orig.mp3" ELSE client.recorded[i - 1]
    /\ \A i \in 1..Len(client.recorded) : client.recorded[i] \in RecordedPaths
    /\ client.pc = "returned" => FlowOutcome

\* A flagged first transcription, a new recording, and the agent's answer
\* to the second, with auto_retry off.
C17_Witness ==
  /\ client.pc = "returned" /\ client.auto_record /\ client.record_fn # None
  /\ ~client.auto_retry
  /\ Transcribed = 2 /\ Low(1) /\ ~Low(2)
  /\ client.recorded = <<"new_audio_2.wav">>
  /\ client.transcribed[2].path = "new_audio_2.wav"
  /\ client.ret \in AgentResponses
  /\ client.prompts = 0

\* The outcome of the step call c executed last carries no reply and its
\* status is not "filled".
SilentNotFilled(c) ==
  /\ OnSession(c) /\ pc[c] \in {"plan", "exec", "fallback"}
  /\ response[c] # <<>>
  /\ ~HasReply(response[c])
  /\ ~(Has(response[c], "status") /\ response[c].status = "filled")

\* C18, as claimed: for every planner/executor pairing, once a step of a
\* process_input call returned an outcome with no reply and a status other
\* than "filled", that call invokes neither the planner nor the executor
\* again.
C18_SilentOutcomeStopsLoop ==
  [][\A c \in Calls :
       SilentNotFilled(c) => (iter'[c] = iter[c] /\ executed'[c] = executed[c])]_vars

\* C19: a process_input call on an existing session stops at the first step
\* whose outcome carries a reply: it plans and executes nothing after it and
\* returns that step's status and reply. The call appends the user's turn
\* first and, when a step replied, one assistant turn with the returned
\* reply, and nothing else: the history the call began with stays as its
\* prefix.
C19_StopsAtFirstReply ==
  \A c \in Calls :
    OnSession(c) =>
      LET h0 == PreSession(c).history
          h == Session(c).history
          n == Len(h0)
      IN /\ Len(h) \in {n + 1, n + 2}
         /\ SubSeq(h, 1, n) = h0
         /\ h[n + 1] = <<"user", transcript[c]>>
         /\ HasReply(response[c]) <=> Len(h) = n + 2
         /\ HasReply(response[c]) =>
              /\ pc[c] = "done"
              /\ Has(result[c], "reply") /\ Has(result[c], "status")
              /\ result[c].reply = response[c].reply
              /\ result[c].status = response[c].status
              /\ h[n + 2] = <<"assistant", result[c].reply>>
         /\ (pc[c] = "done" /\ HasReply(result[c])) => HasReply(response[c])

\* A call that filled the income silently and returned the eligibility
\* reply, on a history of four earlier turns.
C19_Witness ==
  \E c \in Calls :
    /\ Real /\ Returned(c)
    /\ Len(executed[c]) = 2
    /\ result[c].status = "eligible_check"
    /\ Len(PreSession(c).history) = 4
    /\ Len(Session(c).history) = 6
    /\ Session(c).history[6] = <<"assistant", result[c].reply>>

\* C20: no step removes a field from the profile, and a step that gives a
\* field f a value, a first one or another one, is a fill_field step for f
\* that returned "filled" and stored the number found in the utterance. The
\* steps of every other kind, a fill_field that found no number, and the
\* entry of process_input leave the profile as it was.
C20_ProfileChangesOnlyByFill ==
  \A c \in Calls :
    /\ (OnSession(c) /\ pc[c] # "executed" /\ executed[c] = <<>>) =>
         Session(c).profile = PreSession(c).profile
    /\ StepRan(c) =>
         LET old == BeforeStep(c).profile
             new == Session(c).profile
         IN /\ DOMAIN old \subseteq DOMAIN new
            /\ \A f \in DOMAIN new :
                 (f \notin DOMAIN old \/ new[f] # old[f]) =>
                   /\ LastStep(c) = [step |-> "fill_field", field |-> f]
                   /\ pc[c] # "raised"
                   /\ response[c] = [status |-> "filled", field |-> f]
                   /\ ValidFor(f, transcript[c])
                   /\ new[f] = NumberIn(f, transcript[c])
            /\ LastStep(c).step # "fill_field" => new = old

\* An age of 30 replaced by the 1 of "Yes 1,500" in a fill_field step.
C20_Witness ==
  \E c \in Calls :
    /\ StepRan(c)
    /\ LastStep(c) = [step |-> "fill_field", field |-> "age"]
    /\ BeforeStep(c).profile = [age |-> 30, income |-> 1500]
    /\ Session(c).profile = [age |-> 1, income |-> 1500]
    /\ transcript[c] = U_Yes_1500

----------------------------------------------------------------------------
\* C21: with the real Planner and Executor, a process_input call on an
\* existing session executes at most number-of-required-fields + 1 steps and
\* never comes to the return after the loop; when it returns, the step it
\* executed last produced a non-empty reply, which is the reply returned, and
\* the status returned is neither "filled" nor "no_action".
C21_ChainEndsWithReply ==
  \A c \in Calls :
    Real /\ OnSession(c) =>
      /\ Len(executed[c]) <= Len(RequiredFields) + 1
      /\ pc[c] # "fallback"
      /\ Returned(c) =>
           /\ executed[c] # <<>>
           /\ HasReply(response[c])
           /\ HasReply(result[c])
           /\ result[c].reply = response[c].reply
           /\ result[c].status \notin {"filled", "no_action"}

\* The longest chain: a field is filled and eligibility is checked in the same
\* call, which returns the offer.
C21_Witness ==
  \E c \in Calls :
    /\ Real /\ Returned(c)
    /\ Len(executed[c]) = 2
    /\ executed[c][1].step = "fill_field"
    /\ executed[c][2].step = "check_eligibility"
    /\ iter[c] = 2
    /\ result[c].status = "eligible_check"

----------------------------------------------------------------------------
\* C22: the Planner's gate uses the configured threshold: the first plan of
\* a call is the request to record again iff the call's confidence is below
\* ASR_CONFIDENCE_THRESHOLD, so for the confidence /transcribe returned last
\* the plan is the request to record again iff /transcribe flagged
\* low_confidence.
C22_GateUsesConfiguredThreshold ==
  \A c \in Calls :
    (server.pc = "up" /\ FirstPlan(c)) =>
      /\ plan[c] = <<ClarifyStep>> <=> confidence[c] < server.threshold
      /\ (/\ Has(server.transcribed, "confidence")
          /\ server.transcribed.confidence = confidence[c]) =>
           (plan[c] = <<ClarifyStep>> <=> server.transcribed.low_confidence)

----------------------------------------------------------------------------
\* The replies in the history of the session "s1", in order.
Said == SelectSeq(store["s1"].history, LAMBDA h : h[1] = "assistant")

\* The reply of a submission.
IsSubmission(h) == h[2][1] = "submitted"

\* The reply of a check-eligibility step that offers schemes and asks for the
\* confirmation.
IsOffer(h) == h[2][1] = "eligible"

\* Reply i is a submission that no offer precedes since the submission
\* before it.
Unprompted(i) ==
  /\ IsSubmission(Said[i])
  /\ ~\E j \in 1..(i - 1) :
        /\ IsOffer(Said[j])
        /\ \A k \in (j + 1)..(i - 1) : ~IsSubmission(Said[k])

\* C23: as long as no call on the session began while another call was
\* running, every submission is preceded by a check-eligibility step of its
\* own since the submission before it: one submission at most per
\* confirmation prompt. (That the race is reachable when calls interleave is
\* the witness.)
C23_SerializedCallsSubmitOncePerOffer ==
  (Real /\ ~overlapped) => \A i \in 1..Len(Said) : ~Unprompted(i)

\* The race: the two calls interleave, each planned "confirm" from
\* waiting_for = "confirmation", each invoked the submission collaborator,
\* and the second submission has no offer of its own.
C23_Witness ==
  /\ Real /\ overlapped
  /\ \A c \in Calls :
       /\ Returned(c)
       /\ executed[c] = <<[step |-> "confirm"]>>
       /\ PreSession(c).waiting_for = "confirmation"
       /\ Len(Submissions(c)) = 1
       /\ result[c].status = "submitted"
  /\ Len(SelectSeq(Said, IsOffer)) = 1
  /\ Len(SelectSeq(Said, IsSubmission)) = 2
  /\ \E i \in 1..Len(Said) : Unprompted(i)

----------------------------------------------------------------------------
\* C24: from a new session and through calls made one after another, when
\* no call is running: waiting_for is None, "age", "income" or
\* "confirmation"; a field waited for is absent from the profile; and while
\* the confirmation is waited for, the profile has the age and the income
\* and the offers stored last are not empty.
C24_WaitingForIsConsistent ==
  (Real /\ ~Running(threads)) =>
    LET s == store["s1"]
    IN /\ s.waiting_for \in {None, "age", "income", "confirmation"}
       /\ s.waiting_for \in {"age", "income"} =>
            ~Has(s.profile, s.waiting_for)
       /\ s.waiting_for = "confirmation" =>
            /\ Has(s.profile, "age")
            /\ Has(s.profile, "income")
            /\ s.last_eligibility # <<>>

\* A call has ended on a session that goes on waiting for the confirmation
\* after an answer that was neither yes nor no.
C24_Witness ==
  \E c \in Calls :
    /\ Real /\ Returned(c) /\ ~Running(threads)
    /\ result[c].status = "confirm_ask"
    /\ Session(c).waiting_for = "confirmation"
    /\ PreSession(c).waiting_for = "confirmation"
    /\ DOMAIN Session(c).profile = {"age", "income"}
    /\ Session(c).last_eligibility # <<>>

----------------------------------------------------------------------------
\* The history of the session "s1" and the places of the user's utterances
\* in it: each call on the session adds one.
Hist == store["s1"].history

UserPlaces == {j \in 1..Len(Hist) : Hist[j][1] = "user"}

CallsBegun == Cardinality(UserPlaces)

\* The place of the utterance of the i-th call.
PlaceOf(i) ==
  CHOOSE j \in UserPlaces : Cardinality({k \in UserPlaces : k <= j}) = i

Uttered(i) == Hist[PlaceOf(i)][2]

\* The reply that stood last in the history when the i-th call began.
ReplyBefore(i) ==
  IF PlaceOf(i) > 1 /\ Hist[PlaceOf(i) - 1][1] = "assistant"
  THEN Hist[PlaceOf(i) - 1][2]
  ELSE <<>>

\* The field that reply asked for.
AskedBefore(i) ==
  LET r == ReplyBefore(i)
  IN IF Len(r) = 2 /\ r[1] \in {"ask", "ask_again"} THEN r[2] ELSE None

\* Every call that can be made with this utterance has confidence >= 0.6.
Confident(t) ==
  \A in \in InputsOf(inputs) : (in[1] = "s1" /\ in[2] = t) => in[3] >= 60

\* The user cooperated in the first k calls: each was confident, and an
\* utterance that answers the question for a field holds a number the field
\* accepts.
Cooperated(k) ==
  \A i \in 1..k :
    /\ Confident(Uttered(i))
    /\ AskedBefore(i) \in {"age", "income"} =>
         (/\ Uttered(i) \in AllUtterances
          /\ ValidFor(AskedBefore(i), Uttered(i)))

\* The i-th call, not the last one begun, returned a reply.
Answered(i) ==
  /\ PlaceOf(i) < Len(Hist)
  /\ Hist[PlaceOf(i) + 1][1] = "assistant"

\* No reply in the history says that no scheme was found.
NeverEmpty ==
  \A j \in 1..Len(Hist) :
    Hist[j][1] = "assistant" => Hist[j][2] # <<"not_eligible">>

\* Each time call c invoked the eligibility evaluator, it returned a list
\* that is not empty.
Offers(c) ==
  \A i \in 1..Len(log[c]) :
    log[c][i].fn = "check_eligibility" =>
      (~log[c][i].raised /\ log[c][i].ret # <<>>)

\* C25: from a new session, when the user cooperates (every call confident,
\* every answer to a question for a field holds a valid number) and the
\* eligibility evaluator returns a list that is not empty, the third call
\* ends with the session waiting for the confirmation, having filled the
\* income and checked the eligibility; and a fourth call with an affirmative
\* utterance without details keyword invokes the submission collaborator
\* once and, when that returns, returns status "submitted".
C25_CooperativeUserReachesSubmission ==
  \A c \in Calls :
    (Real /\ OnSession(c) /\ pc[c] \in {"done", "raised"}) =>
      /\ (CallsBegun = 3 /\ Cooperated(3) /\ Offers(c)) =>
           /\ pc[c] = "done"
           /\ Session(c).waiting_for = "confirmation"
           /\ DOMAIN Session(c).profile = {"age", "income"}
           /\ executed[c] = <<[step |-> "fill_field", field |-> "income"],
                              [step |-> "check_eligibility"]>>
      /\ (/\ CallsBegun = 4 /\ Cooperated(4) /\ NeverEmpty
          /\ \A i \in 1..3 : Answered(i)
          /\ Affirmative(Uttered(4)) /\ ~AsksDetails(Uttered(4))) =>
           /\ executed[c] = <<[step |-> "confirm"]>>
           /\ Len(Submissions(c)) = 1
           /\ pc[c] = "done" =>
                (/\ result[c].status = "submitted"
                 /\ Has(result[c], "application_id")
                 /\ Session(c).waiting_for = None)

\* The fourth call of a cooperative dialogue returned the submission.
C25_Witness ==
  \E c \in Calls :
    /\ Real /\ Returned(c)
    /\ CallsBegun = 4 /\ Cooperated(4) /\ NeverEmpty
    /\ \A i \in 1..3 : Answered(i)
    /\ ReplyBefore(2) = <<"ask", "age">>
    /\ ReplyBefore(3) = <<"ask", "income">>
    /\ ReplyBefore(4)[1] = "eligible"
    /\ Affirmative(Uttered(4)) /\ ~AsksDetails(Uttered(4))
    /\ result[c].status = "submitted"
    /\ Len(Submissions(c)) = 1
====
